---- MODULE Spec2Model ----
(***************************************************************************)
(* Model of the research orchestration engine of mcp-research-router:      *)
(* the task matrix and partial-failure join of researchRun, the two-tier   *)
(* rate limiter (p-limit + Bottleneck) of withRateLimit, the retry loop of *)
(* fetchWithRetry, the synthesis pipeline with its aggregation fallback,   *)
(* and the last-run status snapshot.                                       *)
(*                                                                         *)
(* Time is relative: instead of an absolute clock the model keeps, per     *)
(* provider, the time left until Bottleneck's _nextRequest (cooldown) and, *)
(* per registered job, the time left on its start timer (wait).  Tick      *)
(* lets TickMs milliseconds pass.  Timers fire when they are due (Tick is  *)
(* disabled while a due start timer is pending).                           *)
(*                                                                         *)
(* Texts (contents, reports) are sequences of lines; join('\n') is not     *)
(* modelled.  Costs are floating-point numbers held in units of 2^-30 USD  *)
(* with the rounding of every addition.  Citations, the token usage of     *)
(* provider results and timestamps are not modelled.                       *)
(***************************************************************************)
EXTENDS Integers, Sequences, FiniteSets, TLC

\* ---------------------------------------------------------------------
\* Program constants
\* ---------------------------------------------------------------------
GLOBAL_CONCURRENCY == 6
PROVIDER_MIN_TIME_MS == 500
maxConcurrent == 2
DEFAULT_MAX_RETRIES == 3
DEFAULT_BACKOFF_BASE == 250
BACKOFF_CAP_MS == 2000
JITTER_RANGE_MS == 100
ADAPTER_MAX_RETRIES == 3
SYNTH_MAX_RETRIES == 3
RUN_DEFAULT_MAX_RETRIES == 3
RATE_LIMIT_MAX_MIN_TIME_MS == 5000

Provider == {"openai", "gemini", "perplexity", "deepseek"}

\* Object.values(providerStats) enumerates the providers in this order.
ProviderOrder == <<"openai", "gemini", "perplexity", "deepseek">>

\* ---------------------------------------------------------------------
\* Bounds of the model
\* ---------------------------------------------------------------------
MaxRuns == 2          \* researchRun invocations per behaviour
MaxTasks == 4         \* tasks launched per behaviour, all outcomes mixed
GovTasks == 8         \* tasks launched per behaviour, one outcome kind
RetryTasks == 2       \* tasks launched per behaviour, calls retried
MultiTasks == 2       \* tasks launched per behaviour, several runs
MaxQuestions == 2     \* questions of a run in the mixed universe
TickMs == 500         \* granularity of the passage of time
MaxLatency == 1       \* latencyMs values an adapter may report
MaxRetriesArg == 5    \* maxRetries values given to fetchWithRetry alone
SynthTokens == 1000   \* total tokens a synthesis response may report
OrderTasks == 4       \* tasks of the run of the order universe
BackoffBaseArg == 1000 \* a backoffBase other than the default
MantissaBits == 12    \* significant bits of a number
RetryArg == 1         \* maxRetries given to researchRun in the retry universe

RunIds == 1..MaxRuns

VARIABLES
  API_KEY,        \* provider -> BOOLEAN: the provider's key is in the environment
  env,            \* the outcomes the network may produce in this behaviour
  budget,         \* tasks that may still be launched
  runPc,          \* run -> "idle" | "tasks" | "synth" | "returned" | "failed"
  runIn,          \* run -> the config given to researchRun
  tasks,          \* run -> sequence of task records (the task matrix)
  runOut,         \* run -> what researchRun returned or threw
  synthReq,       \* run -> retry-loop state of the run's synthesis call
  globalQueue,    \* p-limit: queued task ids, FIFO
  activeCount,    \* p-limit: number of running functions
  provQueue,      \* Bottleneck: provider -> queued task ids, FIFO
  running,        \* Bottleneck: provider -> registered and not yet freed jobs
  minTime,        \* Bottleneck: provider -> minTime setting
  cooldown,       \* Bottleneck: provider -> max(_nextRequest - now, 0)
  sinceLast,      \* provider -> ms since its last dispatch start (saturating)
  lastGap,        \* provider -> gap measured at its last dispatch start
  lastRunStatus,  \* the status snapshot: <<>> or <<SystemStatus>>
  lastSynthesis,  \* researchSave's cache: <<>> or <<SynthesisResult>>
  lastJoined,     \* the run whose join completed last, 0 while there is none
                  \* (history: the program does not read it)
  settleOrder,    \* task ids in the order their calls settled (recorded in
                  \* the order universe only)
  freq            \* fetchWithRetry called on its own

vars == <<API_KEY, env, budget, runPc, runIn, tasks, runOut, synthReq,
          globalQueue, activeCount, provQueue, running, minTime, cooldown,
          sinceLast, lastGap, lastRunStatus, lastSynthesis, lastJoined, settleOrder, freq>>

orchVars == <<API_KEY, env, budget, runPc, runIn, tasks, runOut, synthReq,
              globalQueue, activeCount, provQueue, running, minTime, cooldown,
              sinceLast, lastGap, lastRunStatus, lastSynthesis, lastJoined,
              settleOrder>>

Min(a, b) == IF a <= b THEN a ELSE b
Max(a, b) == IF a >= b THEN a ELSE b

RECURSIVE Pow2(_)
Pow2(n) == IF n <= 0 THEN 1 ELSE 2 * Pow2(n - 1)

RECURSIVE SeqSum(_)
SeqSum(s) == IF s = <<>> THEN 0 ELSE Head(s) + SeqSum(Tail(s))

RECURSIVE SelectSeqFrom(_, _, _)
\* the elements of s from index k on that are in ok
SelectSeqFrom(s, ok, k) ==
  IF k > Len(s) THEN <<>>
  ELSE (IF s[k] \in ok THEN <<s[k]>> ELSE <<>>) \o SelectSeqFrom(s, ok, k + 1)

\* s.filter(Test) for a Test given as a set of accepted elements (s and ok
\* are evaluated once)
SelectSeqBy(s, ok) ==
  CHOOSE x \in {SelectSeqFrom(v, w, 1) : v \in {s}, w \in {ok}} : TRUE

Range(s) == {s[i] : i \in DOMAIN s}

\* =====================================================================
\* fetchWithRetry (src/utils/http.ts)
\* =====================================================================

\* What a failed attempt throws: the error's name, whether its message
\* includes 'fetch failed', and its HTTP status when it has one.
HttpErrorStatuses == {400, 404, 429, 500, 503}

Failures ==
  { [name |-> "AbortError", fetchFailed |-> FALSE, hasStatus |-> FALSE, status |-> 0],
    [name |-> "TypeError", fetchFailed |-> TRUE, hasStatus |-> FALSE, status |-> 0],
    [name |-> "SyntaxError", fetchFailed |-> FALSE, hasStatus |-> FALSE, status |-> 0] }
  \cup { [name |-> "Error", fetchFailed |-> FALSE, hasStatus |-> TRUE, status |-> s] :
           s \in HttpErrorStatuses }

NoError == [name |-> "", fetchFailed |-> FALSE, hasStatus |-> FALSE, status |-> 0]

\* every HTTP error status is retried
shouldRetryAnyStatus(error) ==
  error.name = "AbortError" \/ error.fetchFailed \/ error.hasStatus

shouldRetry(error) ==
  LET isTimeout == error.name = "AbortError"
      isNetworkError == error.fetchFailed
      is5xxError == error.hasStatus /\ error.status >= 500 /\ error.status < 600
      is429Error == error.hasStatus /\ error.status = 429
  IN isTimeout \/ isNetworkError \/ is5xxError \/ is429Error

\* the loop ends one attempt too late
GiveUpLate(error, attempt, maxRetries) ==
  ~shouldRetry(error) \/ attempt > maxRetries

\* "If not retryable or last attempt, throw"
GiveUp(error, attempt, maxRetries) ==
  ~shouldRetry(error) \/ attempt = maxRetries

\* the delay is not capped
calculateBackoffUncapped(attempt, baseMs, jitter) ==
  baseMs * Pow2(attempt) + jitter

calculateBackoff(attempt, baseMs, jitter) ==
  Min(baseMs * Pow2(attempt), BACKOFF_CAP_MS) + jitter

Jitters == {0, JITTER_RANGE_MS - 1}

enrichError(error, attempts) ==
  [name |-> "HTTPError", originalError |-> error, attempts |-> attempts,
   hasStatus |-> error.hasStatus, status |-> error.status]

NoEnriched == enrichError(NoError, 0)

FreqIdle ==
  [pc |-> "idle", maxRetries |-> 0, backoffBase |-> 0, attempt |-> 0,
   calls |-> 0, sleeps |-> 0, backoffMs |-> 0, firstError |-> NoError,
   lastError |-> NoError, thrown |-> NoEnriched]

\* fetchWithRetry(config): the loop is entered and the first fetch is issued
FetchStart ==
  /\ freq.pc = "idle"
  /\ \E mr \in 0..MaxRetriesArg, base \in {DEFAULT_BACKOFF_BASE, BackoffBaseArg} :
       freq' = [FreqIdle EXCEPT !.pc = "fetch", !.maxRetries = mr,
                                !.backoffBase = base,
                                !.calls = 1]
  /\ UNCHANGED orchVars

\* the fetch resolves with response.ok: the response is returned
FetchOk ==
  /\ freq.pc = "fetch"
  /\ freq' = [freq EXCEPT !.pc = "returned"]
  /\ UNCHANGED orchVars

\* the attempt fails (timeout, network failure, HTTP error, parse error)
FetchFail ==
  /\ freq.pc = "fetch"
  /\ \E error \in Failures, jitter \in Jitters :
       LET first == IF freq.attempt = 0 THEN error ELSE freq.firstError IN
       IF GiveUp(error, freq.attempt, freq.maxRetries)
       THEN freq' = [freq EXCEPT !.pc = "thrown", !.firstError = first,
                                 !.lastError = error,
                                 !.thrown = enrichError(error, freq.attempt)]
       ELSE freq' = [freq EXCEPT !.pc = "sleep", !.firstError = first,
                                 !.lastError = error,
                                 !.sleeps = @ + 1,
                                 !.backoffMs = calculateBackoff(freq.attempt,
                                                 freq.backoffBase, jitter)]
  /\ UNCHANGED orchVars

\* sleep(backoffMs) is over: the loop goes to the next attempt
FetchWake ==
  /\ freq.pc = "sleep"
  /\ freq' = [freq EXCEPT !.pc = "fetch", !.attempt = @ + 1, !.calls = @ + 1]
  /\ UNCHANGED orchVars


\* =====================================================================
\* Cost table (utils/cost.ts), in 2^-30 USD
\* =====================================================================

\* adapter.getDefaultModel()
getDefaultModel(provider) ==
  CASE provider = "openai" -> "gpt-5-mini"
    [] provider = "gemini" -> "gemini-2.5-flash"
    [] provider = "perplexity" -> "sonar"
    [] OTHER -> "deepseek-chat"

\* Costs are JavaScript numbers: binary floating point, every addition
\* rounded to nearest, ties to even. A cost is held here as a whole number of
\* 2^-30 USD, and a number keeps MantissaBits significant bits (53 in the
\* program, fewer here to stay within the integers of the model checker).
\* the numbers below MantissaLimit are held exactly
MantissaLimit == Pow2(MantissaBits)

RECURSIVE UnitFrom(_, _)
\* the spacing of the numbers around n: the least power of two, from u on,
\* by which n has MantissaBits significant bits
UnitFrom(n, u) == IF n < u * MantissaLimit THEN u ELSE UnitFrom(n, 2 * u)

\* n rounded to the nearest multiple of unit, ties to the even one
RoundTo(n, unit) ==
  LET q == n \div unit
      r == n % unit
      up == (2 * r > unit) \/ (2 * r = unit /\ q % 2 = 1)
  IN (IF up THEN q + 1 ELSE q) * unit

\* the number nearest to n (n and its unit are evaluated once)
Fl(n) ==
  CHOOSE x \in UNION {{RoundTo(v, u) : u \in {UnitFrom(v, 1)}} : v \in {n}} : TRUE

\* a + b of two numbers
FAdd(a, b) == Fl(a + b)

RECURSIVE FSumTo(_, _)
\* the sum after the first k elements of s
FSumTo(s, k) == IF k = 0 THEN 0 ELSE FAdd(FSumTo(s, k - 1), s[k])

\* s.reduce((sum, x) => sum + x, 0)
FSum(s) == CHOOSE x \in {FSumTo(v, Len(v)) : v \in {s}} : TRUE

\* the literals 0.003, 0.0001, 0.01 and 0.001 of the default models
COST_ESTIMATES ==
  [p \in Provider |->
     CASE p = "openai" -> Fl(3221225)
       [] p = "gemini" -> Fl(107374)
       [] p = "perplexity" -> Fl(10737418)
       [] OTHER -> Fl(1073742)]

\* only the default models are ever queried (executeProviderQuery is
\* called without a model), so the lookup by model always hits
getEstimatedCost(provider, model) == COST_ESTIMATES[provider]

\* r.error as a JavaScript condition: undefined and '' are falsy
HasError(result) == result.error # ""

Successful(results) == SelectSeqBy(results, {x \in Range(results) : ~HasError(x)})
Failed(results) == SelectSeqBy(results, {x \in Range(results) : HasError(x)})

\* results.reduce: total for a failed result, total + cost otherwise
calculateTotalCost(results) ==
  FSum([k \in DOMAIN Successful(results) |->
          getEstimatedCost(Successful(results)[k].provider,
                           Successful(results)[k].model)])

calculateCostBreakdown(results) ==
  [p \in Provider |->
     calculateTotalCost(SelectSeqBy(results, {x \in Range(results) : x.provider = p}))]

RECURSIVE LatencySum(_)
LatencySum(results) ==
  IF results = <<>> THEN 0 ELSE Head(results).latencyMs + LatencySum(Tail(results))

\* =====================================================================
\* Synthesis module (synth/synthesize.ts)
\* =====================================================================

\* the failed results are charged too
calculateMetricsChargeAll(results, synthesisLatencyMs) ==
  [totalQueries |-> Len(results),
   successfulQueries |-> Len(Successful(results)),
   failedQueries |-> Len(Failed(results)),
   totalLatencyMs |-> LatencySum(results) + synthesisLatencyMs,
   costEstimates |-> calculateCostBreakdown(results),
   totalCostUSD |-> FSum([k \in DOMAIN results |->
                            getEstimatedCost(results[k].provider,
                                             results[k].model)])]

calculateMetrics(results, synthesisLatencyMs) ==
  [totalQueries |-> Len(results),
   successfulQueries |-> Len(Successful(results)),
   failedQueries |-> Len(Failed(results)),
   totalLatencyMs |-> LatencySum(results) + synthesisLatencyMs,
   costEstimates |-> calculateCostBreakdown(results),
   totalCostUSD |-> calculateTotalCost(results)]

RECURSIVE QuestionOrder(_, _)
\* key order of the byQuestion Map: question ids by first appearance
QuestionOrder(results, seen) ==
  IF results = <<>> THEN <<>>
  ELSE IF Head(results).questionId \in seen
       THEN QuestionOrder(Tail(results), seen)
       ELSE <<Head(results).questionId>>
            \o QuestionOrder(Tail(results), seen \cup {Head(results).questionId})

QuestionHeading(questionNum, questionId) ==
  "## Question " \o ToString(questionNum) \o " (ID: " \o questionId \o ")"

ProviderHeading(result) ==
  "### " \o result.provider \o " (" \o result.model \o ")"

RECURSIVE ResultSections(_)
ResultSections(questionResults) ==
  IF questionResults = <<>> THEN <<>>
  ELSE <<ProviderHeading(Head(questionResults)), "",
         Head(questionResults).content, "">>
       \o ResultSections(Tail(questionResults))

RECURSIVE QuestionSections(_, _, _)
QuestionSections(order, questionNum, successfulResults) ==
  IF order = <<>> THEN <<>>
  ELSE <<QuestionHeading(questionNum, Head(order)), "">>
       \o ResultSections(SelectSeqBy(successfulResults,
            {x \in Range(successfulResults) : x.questionId = Head(order)}))
       \o QuestionSections(Tail(order), questionNum + 1, successfulResults)

AggregationHeader ==
  <<"# Aggregated Research Results", "",
    "Results from multiple providers (no synthesis performed):", "">>

\* the failed results are listed among the sources
aggregateWithoutSynthesisAllSources(results) ==
  LET successfulResults == Successful(results) IN
  [synthesized |-> AggregationHeader
                   \o QuestionSections(QuestionOrder(successfulResults, {}), 1,
                                       successfulResults),
   sources |-> results,
   metrics |-> calculateMetrics(results, 0),
   synthModel |-> "none (aggregation only)"]

aggregateWithoutSynthesis(results) ==
  LET successfulResults == Successful(results) IN
  [synthesized |-> AggregationHeader
                   \o QuestionSections(QuestionOrder(successfulResults, {}), 1,
                                       successfulResults),
   sources |-> successfulResults,
   metrics |-> calculateMetrics(results, 0),
   synthModel |-> "none (aggregation only)"]

\* the single-result shortcut of synthesize
SingleResult(results) ==
  LET result == Successful(results)[1] IN
  [synthesized |-> <<result.content>>,
   sources |-> <<result>>,
   metrics |-> calculateMetrics(results, 0),
   synthModel |-> "none (single result)"]

\* what synthesize returns when the synthesis call succeeded
Synthesized(results, text, synthModel, synthesisLatencyMs) ==
  [synthesized |-> <<text>>,
   sources |-> Successful(results),
   metrics |-> calculateMetrics(results, synthesisLatencyMs),
   synthModel |-> synthModel]

DEFAULT_SYNTHESIS_MODEL == "gpt-5-mini"

\* synthesisCostUSD = usage.totalTokens * 0.000002 (2147.5 * 2^-30 USD a
\* token); it is passed to logSynthesisResponse and to nothing else
synthesisCostUSD(totalTokens) == Fl((totalTokens * 21475) \div 10)

\* =====================================================================
\* Status snapshot (tools/researchRun.ts)
\* =====================================================================

\* the failed queries are left out of totalQueries
createProviderStatusSuccessfulOnly(provider, results) ==
  LET successful == Successful(results)
      failed == Failed(results)
  IN [provider |-> provider,
      totalQueries |-> Len(successful),
      successfulQueries |-> Len(successful),
      failedQueries |-> Len(failed),
      successRate |-> IF Len(results) > 0 THEN <<Len(successful), Len(results)>>
                      ELSE <<0, 1>>,
      avgLatencyMs |-> IF Len(successful) > 0
                       THEN <<LatencySum(successful), Len(successful)>>
                       ELSE <<0, 1>>,
      totalCostUSD |-> calculateTotalCost(successful)]

createProviderStatus(provider, results) ==
  LET successful == Successful(results)
      failed == Failed(results)
  IN [provider |-> provider,
      totalQueries |-> Len(results),
      successfulQueries |-> Len(successful),
      failedQueries |-> Len(failed),
      \* successRate and avgLatencyMs are quotients: <<numerator, denominator>>,
      \* <<0, 1>> for the literal 0 of the empty case
      successRate |-> IF Len(results) > 0 THEN <<Len(successful), Len(results)>>
                      ELSE <<0, 1>>,
      avgLatencyMs |-> IF Len(successful) > 0
                       THEN <<LatencySum(successful), Len(successful)>>
                       ELSE <<0, 1>>,
      totalCostUSD |-> calculateTotalCost(successful)]

\* providers without a query of the run are listed too
updateSystemStatusUnfiltered(results) ==
  [providers |-> [k \in DOMAIN ProviderOrder |->
                    createProviderStatus(ProviderOrder[k],
                      SelectSeqBy(results,
                        {x \in Range(results) : x.provider = ProviderOrder[k]}))],
   totalQueries |-> Len(results),
   totalCostUSD |-> calculateTotalCost(results)]

\* Object.values(providerStats).filter(p => p.totalQueries > 0)
updateSystemStatus(results) ==
  LET providerStats ==
        [k \in DOMAIN ProviderOrder |->
           createProviderStatus(ProviderOrder[k],
             SelectSeqBy(results,
               {x \in Range(results) : x.provider = ProviderOrder[k]}))]
  IN [providers |-> SelectSeqBy(providerStats,
                      {x \in Range(providerStats) : x.totalQueries > 0}),
      totalQueries |-> Len(results),
      totalCostUSD |-> calculateTotalCost(results)]

NoRunsMarker == [message |-> "No research runs have been executed yet"]

\* researchStatus(): the marker while lastRunStatus is null
researchStatus ==
  IF lastRunStatus = <<>> THEN NoRunsMarker ELSE lastRunStatus[1]


\* =====================================================================
\* Run orchestration (tools/researchRun.ts) and rate limiting
\* (utils/rateLimit.ts)
\* =====================================================================

OutcomeKinds == {"ok", "empty", "error", "throw"}

QuestionIds == [k \in 1..9 |-> "q" \o ToString(k)]

OutputFormats == {"json", "markdown", "file"}

\* values of config.return: the three formats and one that is none of them
ReturnValues == OutputFormats \cup {"xml"}

NonRetryable == {error \in Failures : ~shouldRetry(error)}

AllKeys == {[p \in Provider |-> TRUE]}

\* The inputs and the environment of a behaviour are drawn from one of these
\* universes:
\*  - mixed: one run of a small task matrix (a provider may be listed
\*    twice), providers with and without key, every mix of task outcomes;
\*  - retry: one run of one provider whose calls may fail with any failure,
\*    retryable or not, called with maxRetries = RetryArg;
\*  - gov(kind): task matrices larger than the caps, all tasks ending the
\*    same way;
\*  - multi: several runs, which may overlap;
\*  - order: one run of two providers whose successful calls may settle in
\*    any order, the order being recorded in settleOrder;
\*  - overlap: several runs, which may overlap, whose tasks together are
\*    more than the caps.
MixedEnv ==
  [name |-> "mixed", runs |-> 1, budget |-> MaxTasks,
   maxRetries |-> RUN_DEFAULT_MAX_RETRIES,
   outcomes |-> OutcomeKinds, failures |-> NonRetryable,
   latencies |-> {MaxLatency},
   providerLists |-> {<<>>, <<"openai">>, <<"openai", "gemini">>,
                      <<"gemini", "gemini">>},
   minQuestions |-> 0, maxQuestions |-> MaxQuestions,
   returns |-> ReturnValues,
   keys |-> {k \in [Provider -> BOOLEAN] : k["perplexity"] /\ k["deepseek"]}]

RetryEnv ==
  [name |-> "retry", runs |-> 1, budget |-> RetryTasks,
   maxRetries |-> RetryArg,
   outcomes |-> {"ok", "error"}, failures |-> Failures,
   latencies |-> {MaxLatency},
   providerLists |-> {<<"openai">>},
   minQuestions |-> 1, maxQuestions |-> RetryTasks,
   returns |-> {"json"},
   keys |-> AllKeys]

GovEnv(kind) ==
  [name |-> "gov", runs |-> 1, budget |-> GovTasks,
   maxRetries |-> RUN_DEFAULT_MAX_RETRIES,
   outcomes |-> {kind}, failures |-> NonRetryable,
   latencies |-> {MaxLatency},
   providerLists |-> {<<"openai">>, <<"gemini", "openai">>},
   minQuestions |-> 1, maxQuestions |-> GovTasks,
   returns |-> {"json"},
   keys |-> AllKeys]

MultiEnv ==
  [name |-> "multi", runs |-> MaxRuns, budget |-> MultiTasks,
   maxRetries |-> RUN_DEFAULT_MAX_RETRIES,
   outcomes |-> {"ok", "error"}, failures |-> NonRetryable,
   latencies |-> {MaxLatency},
   providerLists |-> {<<>>, <<"openai">>, <<"gemini">>},
   minQuestions |-> 1, maxQuestions |-> MaxQuestions,
   returns |-> {"json", "xml"},
   keys |-> AllKeys]

OrderEnv ==
  [name |-> "order", runs |-> 1, budget |-> OrderTasks,
   maxRetries |-> RUN_DEFAULT_MAX_RETRIES,
   outcomes |-> {"ok"}, failures |-> NonRetryable,
   latencies |-> {MaxLatency},
   providerLists |-> {<<"gemini", "openai">>},
   minQuestions |-> 1, maxQuestions |-> OrderTasks,
   returns |-> {"json"},
   keys |-> AllKeys]

OverlapEnv ==
  [name |-> "overlap", runs |-> MaxRuns, budget |-> GovTasks,
   maxRetries |-> RUN_DEFAULT_MAX_RETRIES,
   outcomes |-> {"ok"}, failures |-> NonRetryable,
   latencies |-> {MaxLatency},
   providerLists |-> {<<"gemini", "openai">>},
   minQuestions |-> GovTasks \div 4, maxQuestions |-> GovTasks \div 4,
   returns |-> {"json"},
   keys |-> AllKeys]

Universes ==
  {MixedEnv, RetryEnv, MultiEnv, OrderEnv, OverlapEnv} \cup {GovEnv(kind) : kind \in {"ok", "error", "throw"}}

NoResult ==
  [provider |-> "", model |-> "", questionId |-> "", content |-> "",
   latencyMs |-> 0, error |-> ""]

NewTask(provider, questionId) ==
  [provider |-> provider, questionId |-> questionId, st |-> "new",
   wait |-> 0, attempt |-> 0, calls |-> 0, globalAcq |-> 0, provAcq |-> 0,
   released |-> 0, events |-> <<>>, result |-> NoResult]

\* the matrix is built over the questions only
TaskMatrixOneProvider(providers, questions) ==
  [k \in 1..Len(questions) |-> NewTask(providers[1], questions[k])]

\* "Create task matrix (providers x questions)": provider-major
TaskMatrix(providers, questions) ==
  [k \in 1..(Len(providers) * Len(questions)) |->
     NewTask(providers[((k - 1) \div Len(questions)) + 1],
             questions[((k - 1) % Len(questions)) + 1])]

\* the error text leaves out "API key"
NotConfiguredResultShort(provider, questionId) ==
  [provider |-> provider, model |-> getDefaultModel(provider),
   questionId |-> questionId, content |-> "", latencyMs |-> 0,
   error |-> provider \o " not configured"]

NotConfiguredResult(provider, questionId) ==
  [provider |-> provider, model |-> getDefaultModel(provider),
   questionId |-> questionId, content |-> "", latencyMs |-> 0,
   error |-> provider \o " API key not configured"]

\* an unconfigured provider is queried like any other
LaunchAlways(t) ==
  [t EXCEPT !.st = "queued", !.events = <<"provider_started">>]

\* executeProviderQuery up to its first await: the configuration check,
\* notifyProviderStarted and the call of withRateLimit (globalLimit queues it)
Launch(t) ==
  IF ~API_KEY[t.provider]
  THEN [t EXCEPT !.st = "done",
                 !.result = NotConfiguredResult(t.provider, t.questionId)]
  ELSE [t EXCEPT !.st = "queued", !.events = <<"provider_started">>]

TaskOf(tk, id) == tk[id[1]][id[2]]

\* one slot more than the limit
AdmitCountOver(queue, active) ==
  Min(Len(queue), Max(GLOBAL_CONCURRENCY + 1 - active, 0))

\* each run has a limit of its own: only the slots held by the run of the
\* first queued function are counted
AdmitCountPerRun(queue, active) ==
  IF queue = <<>> THEN 0
  ELSE Min(Len(queue),
           Max(GLOBAL_CONCURRENCY
                 - Cardinality({i \in DOMAIN tasks[Head(queue)[1]] :
                      tasks[Head(queue)[1]][i].st
                        \in {"provq", "scheduled", "fetch", "sleep"}}), 0))

\* p-limit takes queued functions while fewer than the limit are active;
\* each function taken calls limiter.schedule, which queues a Bottleneck job
AdmitCount(queue, active) ==
  Min(Len(queue), Max(GLOBAL_CONCURRENCY - active, 0))

\* the provider's limiter is entered without a slot of p-limit
AdmittedNoGlobal(tk, queue, active) ==
  [tasks |-> [r \in RunIds |->
                [i \in DOMAIN tk[r] |->
                   IF <<r, i>> \in Range(queue)
                   THEN [tk[r][i] EXCEPT !.st = "provq"]
                   ELSE tk[r][i]]],
   globalQueue |-> <<>>,
   activeCount |-> active,
   provQueue |-> [p \in Provider |->
                    provQueue[p] \o SelectSeqBy(queue,
                      {id \in Range(queue) : TaskOf(tk, id).provider = p})]]

\* tk, queue, active: tasks, globalQueue and activeCount before admission
Admitted(tk, queue, active) ==
  LET k == AdmitCount(queue, active)
      adm == SubSeq(queue, 1, k)
  IN [tasks |-> [r \in RunIds |->
                   [i \in DOMAIN tk[r] |->
                      IF <<r, i>> \in Range(adm)
                      THEN [tk[r][i] EXCEPT !.st = "provq", !.globalAcq = @ + 1]
                      ELSE tk[r][i]]],
      globalQueue |-> SubSeq(queue, k + 1, Len(queue)),
      activeCount |-> active + k,
      provQueue |-> [p \in Provider |->
                       provQueue[p] \o SelectSeqBy(adm,
                         {id \in Range(adm) : TaskOf(tk, id).provider = p})]]

\* runOut: status is "none" while the run is pending, then "returned" or
\* "thrown"; synthesis and format are the config's synthesis and return
\* fields, drawn where researchRun first reads them (after the join);
\* synthesisResult is researchRun's local of that name, <<>> until assigned
RunError(message) ==
  [status |-> "thrown", error |-> message, synthesis |-> FALSE, format |-> "",
   synthesisResult |-> <<>>, synthEvents |-> <<>>, synthCalls |-> 0,
   synthTokens |-> 0]

NoOutcome ==
  [status |-> "none", error |-> "", synthesis |-> FALSE, format |-> "",
   synthesisResult |-> <<>>, synthEvents |-> <<>>, synthCalls |-> 0,
   synthTokens |-> 0]

NoInput == [providers |-> <<>>, questions |-> <<>>, maxRetries |-> 0]

\* only the providers are examined
ValidateProvidersOnly(providers, questions) ==
  IF Len(providers) = 0 THEN "At least one provider must be specified"
  ELSE ""

\* "Validate inputs": the message of the error thrown, "" when none is
Validate(providers, questions) ==
  IF Len(providers) = 0 THEN "At least one provider must be specified"
  ELSE IF Len(questions) = 0 THEN "At least one question must be specified"
  ELSE ""

\* researchRun(config) up to its first await: validation, the task matrix,
\* and the launch of every task
StartRun(r) ==
  /\ runPc[r] = "idle"
  /\ r <= env.runs
  /\ \A earlier \in RunIds : earlier < r => runPc[earlier] # "idle"
  /\ \E providers \in env.providerLists, n \in env.minQuestions..env.maxQuestions :
       LET questions == SubSeq(QuestionIds, 1, n) IN
       /\ Len(providers) * n <= budget
       /\ runIn' = [runIn EXCEPT ![r] = [providers |-> providers,
                                         questions |-> questions,
                                         maxRetries |-> env.maxRetries]]
       /\ IF Validate(providers, questions) # ""
          THEN /\ runPc' = [runPc EXCEPT ![r] = "failed"]
               /\ runOut' = [runOut EXCEPT ![r] =
                    RunError(Validate(providers, questions))]
               /\ UNCHANGED <<tasks, globalQueue, activeCount, provQueue, budget>>
          ELSE LET matrix == TaskMatrix(providers, questions)
                   launched == [i \in DOMAIN matrix |-> Launch(matrix[i])]
                   queued == SelectSeqBy([i \in DOMAIN matrix |-> <<r, i>>],
                               {<<r, i>> : i \in {j \in DOMAIN matrix :
                                                    launched[j].st = "queued"}})
                   a == Admitted([tasks EXCEPT ![r] = launched],
                                 globalQueue \o queued, activeCount)
               IN /\ tasks' = a.tasks
                  /\ globalQueue' = a.globalQueue
                  /\ activeCount' = a.activeCount
                  /\ provQueue' = a.provQueue
                  /\ budget' = budget - Len(matrix)
                  /\ runPc' = [runPc EXCEPT ![r] = "tasks"]
                  /\ UNCHANGED runOut
  /\ UNCHANGED <<API_KEY, lastSynthesis, lastJoined, settleOrder, env, synthReq, running, minTime, cooldown,
                 sinceLast, lastGap, lastRunStatus, freq>>

\* a job is registered although maxConcurrent are running
CanRegisterOver(p) == running[p] <= maxConcurrent

\* Bottleneck's check of maxConcurrent
CanRegister(p) == running[p] < maxConcurrent

\* the spacing is ignored: the job starts at once
StartDelayNone(p) == 0

\* wait = max(_nextRequest - now, 0)
StartDelay(p) == cooldown[p]

\* Bottleneck registers the first queued job of a provider when fewer than
\* maxConcurrent are running: the job will start when _nextRequest is reached,
\* and _nextRequest moves minTime past that start
ProviderRegister(p) ==
  /\ provQueue[p] # <<>>
  /\ CanRegister(p)
  /\ LET id == Head(provQueue[p])
         wait == StartDelay(p)
     IN
       /\ tasks' = [tasks EXCEPT ![id[1]][id[2]] =
                      [@ EXCEPT !.st = "scheduled", !.wait = wait,
                                !.provAcq = @ + 1]]
       /\ provQueue' = [provQueue EXCEPT ![p] = Tail(@)]
       /\ running' = [running EXCEPT ![p] = @ + 1]
       /\ cooldown' = [cooldown EXCEPT ![p] = wait + minTime[p]]
  /\ UNCHANGED <<API_KEY, lastSynthesis, lastJoined, settleOrder, env, budget, runPc, runIn, runOut, synthReq,
                 globalQueue, activeCount, minTime, sinceLast, lastGap,
                 lastRunStatus, freq>>

\* the start timer of a registered job fires: adapter.query is called and
\* issues its first fetch
Dispatch(r, i) ==
  /\ i \in DOMAIN tasks[r]
  /\ tasks[r][i].st = "scheduled"
  /\ tasks[r][i].wait = 0
  /\ LET p == tasks[r][i].provider IN
       /\ tasks' = [tasks EXCEPT ![r][i] =
                      [@ EXCEPT !.st = "fetch", !.attempt = 0, !.calls = 1]]
       /\ lastGap' = [lastGap EXCEPT ![p] = sinceLast[p]]
       /\ sinceLast' = [sinceLast EXCEPT ![p] = 0]
  /\ UNCHANGED <<API_KEY, lastSynthesis, lastJoined, settleOrder, env, budget, runPc, runIn, runOut, synthReq,
                 globalQueue, activeCount, provQueue, running, minTime,
                 cooldown, lastRunStatus, freq>>

DueTimer ==
  \E r \in RunIds : \E i \in DOMAIN tasks[r] :
    tasks[r][i].st = "scheduled" /\ tasks[r][i].wait = 0

\* TickMs milliseconds pass
Tick ==
  /\ ~DueTimer
  /\ \/ \E p \in Provider : cooldown[p] > 0 \/ sinceLast[p] < minTime[p]
     \/ \E r \in RunIds : \E i \in DOMAIN tasks[r] : tasks[r][i].wait > 0
  /\ cooldown' = [p \in Provider |-> Max(cooldown[p] - TickMs, 0)]
  /\ sinceLast' = [p \in Provider |-> Min(sinceLast[p] + TickMs, minTime[p])]
  /\ tasks' = [r \in RunIds |->
                 [i \in DOMAIN tasks[r] |->
                    [tasks[r][i] EXCEPT !.wait = Max(@ - TickMs, 0)]]]
  /\ UNCHANGED <<API_KEY, lastSynthesis, lastJoined, settleOrder, env, budget, runPc, runIn, runOut, synthReq,
                 globalQueue, activeCount, provQueue, running, minTime,
                 lastGap, lastRunStatus, freq>>


\* the slot is kept: activeCount is not decremented
SettledLeak(r, i, result, event) ==
  LET t == tasks[r][i]
      done == [tasks EXCEPT ![r][i] =
                 [@ EXCEPT !.st = "done", !.result = result,
                           !.events = Append(@, event), !.released = @ + 1]]
  IN [tasks |-> done, globalQueue |-> globalQueue, activeCount |-> activeCount,
      provQueue |-> provQueue,
      running |-> [running EXCEPT ![t.provider] = @ - 1]]

\* no event is emitted on settlement
SettledSilent(r, i, result, event) ==
  LET t == tasks[r][i]
      done == [tasks EXCEPT ![r][i] =
                 [@ EXCEPT !.st = "done", !.result = result,
                           !.released = @ + 1]]
      a == Admitted(done, globalQueue, activeCount - 1)
  IN [tasks |-> a.tasks, globalQueue |-> a.globalQueue,
      activeCount |-> a.activeCount, provQueue |-> a.provQueue,
      running |-> [running EXCEPT ![t.provider] = @ - 1]]

\* p-limit does not take the next queued function when one settles
SettledNoNext(r, i, result, event) ==
  LET t == tasks[r][i]
      done == [tasks EXCEPT ![r][i] =
                 [@ EXCEPT !.st = "done", !.result = result,
                           !.events = Append(@, event), !.released = @ + 1]]
  IN [tasks |-> done, globalQueue |-> globalQueue,
      activeCount |-> activeCount - 1, provQueue |-> provQueue,
      running |-> [running EXCEPT ![t.provider] = @ - 1]]

\* the call made through withRateLimit settles: Bottleneck frees the job,
\* p-limit decrements activeCount and takes the next queued function, and
\* executeProviderQuery notifies and returns its result
Settled(r, i, result, event) ==
  LET t == tasks[r][i]
      done == [tasks EXCEPT ![r][i] =
                 [@ EXCEPT !.st = "done", !.result = result,
                           !.events = Append(@, event), !.released = @ + 1]]
      a == Admitted(done, globalQueue, activeCount - 1)
  IN [tasks |-> a.tasks, globalQueue |-> a.globalQueue,
      activeCount |-> a.activeCount, provQueue |-> a.provQueue,
      running |-> [running EXCEPT ![t.provider] = @ - 1]]

Settle(r, i, result, event) ==
  \E s \in {Settled(r, i, result, event)} :
  /\ tasks' = s.tasks
  /\ globalQueue' = s.globalQueue
  /\ activeCount' = s.activeCount
  /\ provQueue' = s.provQueue
  /\ running' = s.running
  /\ settleOrder' = IF env.name = "order" THEN Append(settleOrder, <<r, i>>)
                    ELSE settleOrder
  /\ UNCHANGED <<API_KEY, lastSynthesis, lastJoined, env, budget, runPc, runIn, runOut, synthReq,
                 minTime, cooldown, sinceLast, lastGap, lastRunStatus, freq>>

AnswerOf(provider, questionId) ==
  "answer of " \o provider \o " to " \o questionId

\* the return of ProviderAdapter.query after a response: content is the
\* response text, or '' when the response has none
SuccessResult(t, kind, latencyMs) ==
  [provider |-> t.provider, model |-> getDefaultModel(t.provider),
   questionId |-> t.questionId,
   content |-> IF kind = "ok" THEN AnswerOf(t.provider, t.questionId) ELSE "",
   latencyMs |-> latencyMs, error |-> ""]

\* the error result keeps a content
ErrorResultWithContent(t, latencyMs, message) ==
  [provider |-> t.provider, model |-> getDefaultModel(t.provider),
   questionId |-> t.questionId, content |-> AnswerOf(t.provider, t.questionId),
   latencyMs |-> latencyMs, error |-> message]

\* the failure leaves a result without error
ErrorResultUnmarked(t, latencyMs, message) ==
  [provider |-> t.provider, model |-> getDefaultModel(t.provider),
   questionId |-> t.questionId, content |-> "",
   latencyMs |-> latencyMs, error |-> ""]

\* the error result of the catch blocks (ProviderAdapter.query,
\* executeProviderQuery): content '' and the error's message
ErrorResult(t, latencyMs, message) ==
  [provider |-> t.provider, model |-> getDefaultModel(t.provider),
   questionId |-> t.questionId, content |-> "",
   latencyMs |-> latencyMs, error |-> message]

\* the fetch of a task succeeds: the adapter returns a result without error,
\* whose content is the response text or '' when the response has none
TaskOk(r, i) ==
  /\ i \in DOMAIN tasks[r]
  /\ tasks[r][i].st = "fetch"
  /\ \E kind \in env.outcomes \cap {"ok", "empty"}, latencyMs \in env.latencies :
       Settle(r, i, SuccessResult(tasks[r][i], kind, latencyMs),
              "provider_finished")

\* the fetch of a task fails: fetchWithRetry sleeps before the next attempt,
\* or throws and the adapter returns a result with error set
TaskFailWith(r, i, error) ==
  /\ i \in DOMAIN tasks[r]
  /\ tasks[r][i].st = "fetch"
  /\ "error" \in env.outcomes
  /\ error \in env.failures
  /\ \E latencyMs \in env.latencies :
       LET t == tasks[r][i] IN
       IF GiveUp(error, t.attempt, ADAPTER_MAX_RETRIES)
       THEN Settle(r, i, ErrorResult(t, latencyMs, "HTTP request failed"),
                   "provider_failed")
       ELSE /\ tasks' = [tasks EXCEPT ![r][i] = [@ EXCEPT !.st = "sleep"]]
            /\ UNCHANGED <<API_KEY, lastSynthesis, lastJoined, settleOrder, env, budget, runPc, runIn, runOut, synthReq,
                           globalQueue, activeCount, provQueue, running,
                           minTime, cooldown, sinceLast, lastGap,
                           lastRunStatus, freq>>

TaskFail(r, i) == \E error \in Failures : TaskFailWith(r, i, error)

\* the retry gives its provider slot back and queues for it again
TaskWakeReadmit(r, i) ==
  /\ i \in DOMAIN tasks[r]
  /\ tasks[r][i].st = "sleep"
  /\ tasks' = [tasks EXCEPT ![r][i] =
                 [@ EXCEPT !.st = "provq", !.attempt = @ + 1]]
  /\ provQueue' = [provQueue EXCEPT ![tasks[r][i].provider] = Append(@, <<r, i>>)]
  /\ running' = [running EXCEPT ![tasks[r][i].provider] = @ - 1]
  /\ UNCHANGED <<API_KEY, lastSynthesis, lastJoined, settleOrder, env, budget, runPc, runIn, runOut, synthReq,
                 globalQueue, activeCount, minTime,
                 cooldown, sinceLast, lastGap, lastRunStatus, freq>>

\* the backoff sleep of a task ends: the next fetch is issued
TaskWake(r, i) ==
  /\ i \in DOMAIN tasks[r]
  /\ tasks[r][i].st = "sleep"
  /\ tasks' = [tasks EXCEPT ![r][i] =
                 [@ EXCEPT !.st = "fetch", !.attempt = @ + 1, !.calls = @ + 1]]
  /\ UNCHANGED <<API_KEY, lastSynthesis, lastJoined, settleOrder, env, budget, runPc, runIn, runOut, synthReq,
                 globalQueue, activeCount, provQueue, running, minTime,
                 cooldown, sinceLast, lastGap, lastRunStatus, freq>>

\* the promise of withRateLimit rejects (ProviderAdapter.query may throw):
\* the catch block of executeProviderQuery builds the error result
TaskThrow(r, i) ==
  /\ i \in DOMAIN tasks[r]
  /\ tasks[r][i].st = "fetch"
  /\ "throw" \in env.outcomes
  /\ Settle(r, i, ErrorResult(tasks[r][i], 0, "adapter failure"),
            "provider_failed")


\* Promise.race instead of Promise.allSettled
AnySettled(r) == \E i \in DOMAIN tasks[r] : tasks[r][i].st = "done"

\* await Promise.allSettled(taskPromises)
AllSettled(r) == \A i \in DOMAIN tasks[r] : tasks[r][i].st = "done"

\* a failed task leaves no result (its promise rejects and is filtered out)
ProviderResultsFulfilledOnly(r) ==
  LET settled == SelectSeqBy(tasks[r], {t \in Range(tasks[r]) :
                               t.st = "done" /\ t.result.error = ""})
  IN [k \in DOMAIN settled |-> settled[k].result]

\* the results are collected as the tasks settle
ProviderResultsInSettleOrder(r) ==
  LET settled == SelectSeqBy(settleOrder, {id \in Range(settleOrder) : id[1] = r})
  IN [k \in DOMAIN settled |-> tasks[r][settled[k][2]].result]

\* the fulfilled values, in task order
ProviderResults(r) ==
  LET settled == SelectSeqBy(tasks[r], {t \in Range(tasks[r]) : t.st = "done"})
  IN [k \in DOMAIN settled |-> settled[k].result]

\* the format is not examined
FormatOutputAny(out, synthesisResult) ==
  [out EXCEPT !.status = "returned", !.synthesisResult = <<synthesisResult>>]

\* "Format output based on requested format": the switch on config.return
FormatOutput(out, synthesisResult) ==
  IF out.format \in OutputFormats
  THEN [out EXCEPT !.status = "returned", !.synthesisResult = <<synthesisResult>>]
  ELSE [out EXCEPT !.status = "thrown", !.synthesisResult = <<synthesisResult>>,
                   !.error = "Unknown output format: " \o out.format]

PcOf(out) == IF out.status = "returned" THEN "returned" ELSE "failed"

\* no shortcut for a single successful result
SynthesizeEntryNoShortcut(results) ==
  IF ~API_KEY["openai"] THEN "thrown"
  ELSE IF Len(Successful(results)) = 0 THEN "thrown"
  ELSE "call"

\* the key is checked after the number of successful results
SynthesizeEntryKeyLast(results) ==
  IF Len(Successful(results)) = 0 THEN "thrown"
  ELSE IF Len(Successful(results)) = 1 THEN "single"
  ELSE IF ~API_KEY["openai"] THEN "thrown"
  ELSE "call"

\* the synchronous part of synthesize: "thrown", "single" or "call"
SynthesizeEntry(results) ==
  IF ~API_KEY["openai"] THEN "thrown"
  ELSE IF Len(Successful(results)) = 0 THEN "thrown"
  ELSE IF Len(Successful(results)) = 1 THEN "single"
  ELSE "call"

\* the failure of synthesize escapes researchRun
SynthesisFailedUncaught(out, results) ==
  [out EXCEPT !.status = "thrown", !.error = "Synthesis failed",
              !.synthEvents = Append(@, "synthesis_failed")]

\* the catch block without its notifySynthesisFailed
SynthesisFailedSilent(out, results) ==
  FormatOutput(out, aggregateWithoutSynthesis(results))

\* the catch block of researchRun: notifySynthesisFailed and the fallback
SynthesisFailed(out, results) ==
  FormatOutput([out EXCEPT !.synthEvents = Append(@, "synthesis_failed")],
               aggregateWithoutSynthesis(results))

NoSynthReq == [st |-> "none", attempt |-> 0]

\* synthesize is called whatever config.synthesis is
PathAlwaysSynthesize(synthesis, results) == SynthesizeEntry(results)

\* "Perform synthesis if requested": "aggregate" when it is not, else how the
\* call of synthesize begins
Path(synthesis, results) ==
  IF ~synthesis THEN "aggregate" ELSE SynthesizeEntry(results)

\* the counters of the previous snapshot are carried over
MergeStatus(previous, results) ==
  IF previous = <<>> THEN <<updateSystemStatus(results)>>
  ELSE <<[updateSystemStatus(results) EXCEPT
            !.totalQueries = @ + previous[1].totalQueries,
            !.totalCostUSD = FAdd(@, previous[1].totalCostUSD)]>>

\* the snapshot is left as it was
ReplaceStatusKeep(previous, results) == previous

\* the snapshot is set by the first run only
ReplaceStatusOnce(previous, results) ==
  IF previous = <<>> THEN <<updateSystemStatus(results)>> ELSE previous

\* "Update status tracking": lastRunStatus is assigned a new object
ReplaceStatus(previous, results) == <<updateSystemStatus(results)>>

\* researchRun from the join on: the results are collected, the snapshot is
\* replaced, and the run aggregates, or synthesizes up to the synthesis call
Join(r) ==
  /\ runPc[r] = "tasks"
  /\ AllSettled(r)
  /\ \E synthesis \in BOOLEAN, format \in env.returns,
        providerResults \in {ProviderResults(r)} :
       LET out == [NoOutcome EXCEPT !.synthesis = synthesis, !.format = format]
           started == [out EXCEPT !.synthEvents = <<"synthesis_started">>]
           entry == Path(synthesis, providerResults)
           final ==
             IF entry = "aggregate"
             THEN FormatOutput(out, aggregateWithoutSynthesis(providerResults))
             ELSE IF entry = "thrown"
             THEN SynthesisFailed(started, providerResults)
             ELSE FormatOutput(
                    [started EXCEPT !.synthEvents = Append(@, "synthesis_finished")],
                    SingleResult(providerResults))
       IN /\ lastRunStatus' = ReplaceStatus(lastRunStatus, providerResults)
          /\ IF entry = "call"
             THEN /\ runPc' = [runPc EXCEPT ![r] = "synth"]
                  /\ runOut' = [runOut EXCEPT ![r] =
                                  [started EXCEPT !.synthCalls = 1]]
                  /\ synthReq' = [synthReq EXCEPT ![r] =
                                    [st |-> "fetch", attempt |-> 0]]
             ELSE /\ runPc' = [runPc EXCEPT ![r] = PcOf(final)]
                  /\ runOut' = [runOut EXCEPT ![r] = final]
                  /\ UNCHANGED synthReq
  /\ lastJoined' = r
  /\ UNCHANGED <<API_KEY, lastSynthesis, settleOrder, env, budget, runIn, tasks,
                 globalQueue, activeCount, provQueue, running, minTime,
                 cooldown, sinceLast, lastGap, freq>>

\* the synthesis call succeeds: synthesize returns the response text ('' when
\* the response has none) and logs the cost of the reported token usage
\* (totalTokens, 0 when the response reports none); researchRun formats the
\* output
SynthOk(r) ==
  /\ runPc[r] = "synth"
  /\ synthReq[r].st = "fetch"
  /\ \E text \in {"synthesis text", ""}, latencyMs \in env.latencies,
        totalTokens \in {0, SynthTokens} :
       LET final == FormatOutput(
                      [runOut[r] EXCEPT !.synthEvents =
                                          Append(@, "synthesis_finished"),
                                        !.synthTokens = totalTokens],
                      Synthesized(ProviderResults(r), text,
                                  DEFAULT_SYNTHESIS_MODEL, latencyMs))
       IN /\ runPc' = [runPc EXCEPT ![r] = PcOf(final)]
          /\ runOut' = [runOut EXCEPT ![r] = final]
  /\ synthReq' = [synthReq EXCEPT ![r] = [@ EXCEPT !.st = "done"]]
  /\ UNCHANGED <<API_KEY, lastSynthesis, lastJoined, settleOrder, env, budget, runIn, tasks, globalQueue, activeCount,
                 provQueue, running, minTime, cooldown, sinceLast, lastGap,
                 lastRunStatus, freq>>

\* the synthesis call fails: fetchWithRetry sleeps before the next attempt, or
\* throws, synthesize rethrows, and researchRun falls back to aggregation
SynthFail(r) ==
  /\ runPc[r] = "synth"
  /\ synthReq[r].st = "fetch"
  /\ \E error \in env.failures :
       IF GiveUp(error, synthReq[r].attempt, SYNTH_MAX_RETRIES)
       THEN LET final == SynthesisFailed(runOut[r], ProviderResults(r)) IN
            /\ runPc' = [runPc EXCEPT ![r] = PcOf(final)]
            /\ runOut' = [runOut EXCEPT ![r] = final]
            /\ synthReq' = [synthReq EXCEPT ![r] = [@ EXCEPT !.st = "done"]]
       ELSE /\ synthReq' = [synthReq EXCEPT ![r] = [@ EXCEPT !.st = "sleep"]]
            /\ UNCHANGED <<runPc, runOut>>
  /\ UNCHANGED <<API_KEY, lastSynthesis, lastJoined, settleOrder, env, budget, runIn, tasks, globalQueue, activeCount,
                 provQueue, running, minTime, cooldown, sinceLast, lastGap,
                 lastRunStatus, freq>>

\* the backoff sleep of the synthesis call ends: the next fetch is issued
SynthWake(r) ==
  /\ runPc[r] = "synth"
  /\ synthReq[r].st = "sleep"
  /\ synthReq' = [synthReq EXCEPT ![r] =
                    [@ EXCEPT !.st = "fetch", !.attempt = @ + 1]]
  /\ runOut' = [runOut EXCEPT ![r] = [@ EXCEPT !.synthCalls = @ + 1]]
  /\ UNCHANGED <<API_KEY, lastSynthesis, lastJoined, settleOrder, env, budget, runPc, runIn, tasks, globalQueue,
                 activeCount, provQueue, running, minTime, cooldown, sinceLast,
                 lastGap, lastRunStatus, freq>>

\* =====================================================================
\* Rate-limit settings (utils/rateLimit.ts)
\* =====================================================================

\* handleRateLimitError reads limiter.chain._store.clientOptions.minTime,
\* internals of Bottleneck that are no part of its interface; what the read
\* does depends on the library build: it yields the limiter's minTime, or
\* undefined (replaced by PROVIDER_MIN_TIME_MS), or it throws a TypeError.
StoreReads == {"current", "undefined", "throws"}

RateLimitEnv(read) ==
  [name |-> "rateLimit", runs |-> 0, budget |-> 0,
   maxRetries |-> RUN_DEFAULT_MAX_RETRIES,
   outcomes |-> {}, failures |-> {}, latencies |-> {},
   providerLists |-> {}, minQuestions |-> 0, maxQuestions |-> 0,
   returns |-> {}, keys |-> AllKeys, storeRead |-> read]

\* limiter.updateSettings({minTime: minTimeMs})
updateProviderRateLimit(provider, minTimeMs) ==
  [minTime EXCEPT ![provider] = minTimeMs]

\* the wait time is doubled without a limit
newMinTimeUncapped(currentMinTime) == currentMinTime * 2

\* "Double the wait time (up to 5 seconds)"
newMinTime(currentMinTime) ==
  Min(currentMinTime * 2, RATE_LIMIT_MAX_MIN_TIME_MS)

\* handleRateLimitError(provider)
HandleRateLimitError(p) ==
  /\ env.name = "rateLimit"
  /\ minTime' =
       IF env.storeRead = "throws" THEN minTime
       ELSE LET currentMinTime == IF env.storeRead = "current" THEN minTime[p]
                                  ELSE PROVIDER_MIN_TIME_MS
            IN updateProviderRateLimit(p, newMinTime(currentMinTime))
  /\ UNCHANGED <<API_KEY, lastSynthesis, lastJoined, settleOrder, env, budget, runPc, runIn, tasks,
                 runOut, synthReq, globalQueue, activeCount, provQueue,
                 running, cooldown, sinceLast, lastGap, lastRunStatus, freq>>

\* resetProviderRateLimit(provider)
ResetProviderRateLimit(p) ==
  /\ env.name = "rateLimit"
  /\ minTime' = updateProviderRateLimit(p, PROVIDER_MIN_TIME_MS)
  /\ UNCHANGED <<API_KEY, lastSynthesis, lastJoined, settleOrder, env, budget, runPc, runIn, tasks,
                 runOut, synthReq, globalQueue, activeCount, provQueue,
                 running, cooldown, sinceLast, lastGap, lastRunStatus, freq>>

\* =====================================================================
\* Specifications
\* =====================================================================

InitState ==
  /\ budget = env.budget
  /\ API_KEY \in env.keys
  /\ runPc = [r \in RunIds |-> "idle"]
  /\ runIn = [r \in RunIds |-> NoInput]
  /\ tasks = [r \in RunIds |-> <<>>]
  /\ runOut = [r \in RunIds |-> NoOutcome]
  /\ synthReq = [r \in RunIds |-> NoSynthReq]
  /\ globalQueue = <<>>
  /\ activeCount = 0
  /\ provQueue = [p \in Provider |-> <<>>]
  /\ running = [p \in Provider |-> 0]
  /\ minTime = [p \in Provider |-> PROVIDER_MIN_TIME_MS]
  /\ cooldown = [p \in Provider |-> 0]
  /\ sinceLast = [p \in Provider |-> PROVIDER_MIN_TIME_MS]
  /\ lastGap = [p \in Provider |-> PROVIDER_MIN_TIME_MS]
  /\ lastRunStatus = <<>>
  /\ lastSynthesis = <<>>
  /\ lastJoined = 0
  /\ settleOrder = <<>>
  /\ freq = FreqIdle

Init ==
  /\ env \in Universes
  /\ InitState

Next ==
  \/ \E r \in RunIds : StartRun(r)
  \/ \E p \in Provider : ProviderRegister(p)
  \/ \E r \in RunIds, i \in 1..(GovTasks + 1) : Dispatch(r, i)
  \/ Tick
  \/ \E r \in RunIds, i \in 1..(GovTasks + 1) : TaskOk(r, i)
  \/ \E r \in RunIds, i \in 1..(GovTasks + 1) : TaskFail(r, i)
  \/ \E r \in RunIds, i \in 1..(GovTasks + 1) : TaskWake(r, i)
  \/ \E r \in RunIds, i \in 1..(GovTasks + 1) : TaskThrow(r, i)
  \/ \E r \in RunIds : Join(r)
  \/ \E r \in RunIds : SynthOk(r)
  \/ \E r \in RunIds : SynthFail(r)
  \/ \E r \in RunIds : SynthWake(r)

Spec == Init /\ [][Next]_vars

\* fetchWithRetry on its own
InitFetch ==
  /\ Init
  /\ env = RetryEnv

NextFetch == FetchStart \/ FetchOk \/ FetchFail \/ FetchWake

SpecFetch == InitFetch /\ [][NextFetch]_vars

\* what the program does by itself once a run has started: Bottleneck's
\* registration and start timers, the passage of time, the backoff timers,
\* and the continuation of researchRun after Promise.allSettled. The event
\* loop runs each of them as soon as it is due.
EventLoop ==
  \/ \E p \in Provider : ProviderRegister(p)
  \/ \E r \in RunIds, i \in 1..(GovTasks + 1) : Dispatch(r, i)
  \/ Tick
  \/ \E r \in RunIds, i \in 1..(GovTasks + 1) : TaskWake(r, i)
  \/ \E r \in RunIds : Join(r)
  \/ \E r \in RunIds : SynthWake(r)

\* a network attempt ends: it responds, or fails, or is aborted by the
\* timeout of fetchWithRetry (setTimeout(() => controller.abort(), timeout))
AttemptEnds ==
  \/ \E r \in RunIds, i \in 1..(GovTasks + 1) : TaskOk(r, i)
  \/ \E r \in RunIds, i \in 1..(GovTasks + 1) : TaskFail(r, i)
  \/ \E r \in RunIds, i \in 1..(GovTasks + 1) : TaskThrow(r, i)
  \/ \E r \in RunIds : SynthOk(r)
  \/ \E r \in RunIds : SynthFail(r)

\* the universes of the runs whose tasks wait for the limiters or retry
LiveUniverses ==
  {RetryEnv, MultiEnv, OverlapEnv} \cup {GovEnv(kind) : kind \in {"ok", "error", "throw"}}

InitLive ==
  /\ env \in LiveUniverses
  /\ InitState

\* the runs under the assumption that due callbacks run and that every
\* attempt ends; when a client calls researchRun is left open
SpecLive ==
  InitLive /\ [][Next]_vars /\ WF_vars(EventLoop) /\ WF_vars(AttemptEnds)

\* the rate-limit settings on their own: handleRateLimitError and
\* resetProviderRateLimit are exported by rateLimit.ts and called by nothing
\* in the repository, so they are driven here by an arbitrary caller
InitRateLimit ==
  /\ env \in {RateLimitEnv(read) : read \in StoreReads}
  /\ InitState

NextRateLimit ==
  \/ \E p \in Provider : HandleRateLimitError(p)
  \/ \E p \in Provider : ResetProviderRateLimit(p)

SpecRateLimit == InitRateLimit /\ [][NextRateLimit]_vars


\* =====================================================================
\* Properties
\* =====================================================================

\* the run is past its join
Joined(r) == runPc[r] \in {"synth", "returned", "failed"} /\ tasks[r] # <<>>

\* the run is over and went through the join
Finished(r) == runPc[r] \in {"returned", "failed"} /\ tasks[r] # <<>>

AllTasks == {id \in RunIds \X (1..(GovTasks + 1)) : id[2] \in DOMAIN tasks[id[1]]}

\* the task holds a slot of p-limit
HoldsGlobal(t) == t.st \in {"provq", "scheduled", "fetch", "sleep"}

\* the task's call has started and has not settled
InFlight(t) == t.st \in {"fetch", "sleep"}

NoRepeat(s) == \A i, j \in DOMAIN s : i # j => s[i] # s[j]

PairsUnique(results) ==
  \A i, j \in DOMAIN results :
    i # j => <<results[i].provider, results[i].questionId>>
             # <<results[j].provider, results[j].questionId>>

\* C1 as stated: after the join a run of m providers and n questions holds
\* m x n results and no two of them share their (provider, questionId) pair.
C1_UniquePairs ==
  \A r \in RunIds :
    Joined(r) =>
      /\ Len(ProviderResults(r)) = Len(runIn[r].providers) * Len(runIn[r].questions)
      /\ PairsUnique(ProviderResults(r))

\* C1 amended: after the join a run of m providers and n questions holds
\* m x n results, the k-th being the result of the k-th task of the matrix
\* (tasks of providers without key included); no two results share their
\* (provider, questionId) pair when no provider is listed twice.
C1_OneResultPerTask ==
  \A r \in RunIds :
    Joined(r) =>
      LET results == ProviderResults(r)
          m == Len(runIn[r].providers)
          n == Len(runIn[r].questions)
      IN /\ Len(results) = m * n
         /\ \A a \in 1..m, b \in 1..n :
              /\ results[(a - 1) * n + b].provider = runIn[r].providers[a]
              /\ results[(a - 1) * n + b].questionId = runIn[r].questions[b]
         /\ NoRepeat(runIn[r].providers) => PairsUnique(results)

C1_Witness ==
  \E r \in RunIds :
    /\ Joined(r)
    /\ Len(runIn[r].providers) = 2
    /\ Len(runIn[r].questions) = 2
    /\ NoRepeat(runIn[r].providers)
    /\ Len(ProviderResults(r)) = 4
    /\ \E i, j \in DOMAIN tasks[r] :
         /\ ~API_KEY[tasks[r][i].provider]
         /\ tasks[r][j].result.error = ""

\* C2: at every instant at most GLOBAL_CONCURRENCY (6) calls have been
\* admitted by the global limiter and have not settled.
C2_GlobalCap ==
  /\ activeCount <= GLOBAL_CONCURRENCY
  /\ Cardinality({id \in AllTasks : HoldsGlobal(TaskOf(tasks, id))})
       <= GLOBAL_CONCURRENCY

C2_Witness ==
  /\ Cardinality({id \in AllTasks : HoldsGlobal(TaskOf(tasks, id))})
       = GLOBAL_CONCURRENCY
  /\ globalQueue # <<>>
  /\ \E id \in AllTasks : TaskOf(tasks, id).st = "done"

\* C3: at every instant, for each provider, at most maxConcurrent (2) of its
\* calls have started and not settled, however many tasks are queued for it.
C3_ProviderCap ==
  \A p \in Provider :
    /\ running[p] <= maxConcurrent
    /\ Cardinality({id \in AllTasks : /\ TaskOf(tasks, id).provider = p
                                      /\ InFlight(TaskOf(tasks, id))})
         <= maxConcurrent

C3_Witness ==
  \E p \in Provider :
    /\ Cardinality({id \in AllTasks : /\ TaskOf(tasks, id).provider = p
                                      /\ InFlight(TaskOf(tasks, id))})
         = maxConcurrent
    /\ Len(provQueue[p]) >= 2

\* C4: two consecutive dispatch starts of calls to one provider are at least
\* the provider's minTime (500 ms) apart: the gap measured at every dispatch
\* start, which saturates at minTime, is minTime.
C4_Spacing ==
  \A p \in Provider : lastGap[p] >= minTime[p]

\* a call of a provider has started, and a second one, which holds a slot of
\* the provider, is held back until minTime has passed
C4_Witness ==
  \E a, b \in AllTasks :
    /\ TaskOf(tasks, a).provider = TaskOf(tasks, b).provider
    /\ TaskOf(tasks, a).st = "fetch"
    /\ TaskOf(tasks, b).st = "scheduled"
    /\ TaskOf(tasks, b).wait > 0
    /\ sinceLast[TaskOf(tasks, b).provider] < minTime[TaskOf(tasks, b).provider]
    /\ running[TaskOf(tasks, b).provider] = maxConcurrent


FailedTasks(r) == {i \in DOMAIN tasks[r] : tasks[r][i].result.error # ""}

\* a task that is not done is where its state says: nothing drops it
Pending(r, i) ==
  LET t == tasks[r][i] IN
  CASE t.st = "queued" -> <<r, i>> \in Range(globalQueue)
    [] t.st = "provq" -> <<r, i>> \in Range(provQueue[t.provider])
    [] t.st \in {"scheduled", "fetch", "sleep"} -> running[t.provider] > 0
    [] OTHER -> FALSE

\* C5: a task's failure, thrown or returned as an error result, aborts
\* neither its siblings nor the run: while the run waits, every sibling is
\* done or still on its way; at the join every task is settled and every
\* failed task has a result with error set, counted as failed in the run's
\* metrics; and a run with a supported output format returns.
C5_FailureIsolated ==
  \A r \in RunIds :
    /\ runPc[r] = "tasks" =>
         \A i \in DOMAIN tasks[r] : tasks[r][i].st = "done" \/ Pending(r, i)
    /\ Joined(r) =>
         /\ \A i \in DOMAIN tasks[r] : tasks[r][i].st = "done"
         /\ \A i \in DOMAIN tasks[r] :
              "provider_failed" \in Range(tasks[r][i].events) =>
                 /\ tasks[r][i].result.error # ""
                 /\ tasks[r][i].result.content = ""
    /\ Finished(r) =>
         /\ runOut[r].synthesisResult # <<>>
         /\ runOut[r].synthesisResult[1].metrics.failedQueries
              = Cardinality(FailedTasks(r))
         /\ runOut[r].synthesisResult[1].metrics.totalQueries = Len(tasks[r])
         /\ runOut[r].format \in OutputFormats => runOut[r].status = "returned"

\* a run returned with one task whose adapter threw, one whose adapter
\* returned an error, and one that succeeded
C5_Witness ==
  \E r \in RunIds :
    /\ Finished(r)
    /\ runOut[r].status = "returned"
    /\ \E i, j, k \in DOMAIN tasks[r] :
         /\ tasks[r][i].result.error = "adapter failure"
         /\ tasks[r][j].result.error = "HTTP request failed"
         /\ tasks[r][k].result.error = ""
         /\ i < k /\ j < k

\* the snapshot is the one computed from the results of run r
SnapshotOf(r) ==
  /\ Joined(r)
  /\ lastRunStatus # <<>>
  /\ lastRunStatus[1] = updateSystemStatus([i \in DOMAIN tasks[r] |-> tasks[r][i].result])

\* C6: neither the snapshot update nor synthesis or aggregation begins before
\* every task of the run has settled: a run past its join has no task in
\* flight, the snapshot is set only once some run is past its join, and a
\* step that starts synthesis or replaces the snapshot is taken by a run
\* whose tasks are all settled.
C6_BarrierJoin ==
  /\ \A r \in RunIds :
       runPc[r] \in {"synth", "returned", "failed"} =>
         \A i \in DOMAIN tasks[r] : tasks[r][i].st = "done"
  /\ \A r \in RunIds :
       runOut[r].synthEvents # <<>> \/ runOut[r].synthesisResult # <<>> =>
         \A i \in DOMAIN tasks[r] : tasks[r][i].st = "done"
  /\ lastRunStatus # <<>> => \E r \in RunIds : Joined(r) /\ AllSettled(r)

\* synthesis is running for a run of several tasks, some of them failed
C6_Witness ==
  \E r \in RunIds :
    /\ runPc[r] = "synth"
    /\ Len(tasks[r]) >= 3
    /\ FailedTasks(r) # {}
    /\ SnapshotOf(r)

\* C7 (fetchWithRetry on its own): a request is attempted at most
\* maxRetries + 1 times; one whose first failure is not retryable is
\* attempted exactly once; after the last attempt no call is made.
C7_AttemptBound ==
  /\ freq.calls <= freq.maxRetries + 1
  /\ freq.calls = (IF freq.pc = "idle" THEN 0 ELSE freq.attempt + 1)
  /\ (freq.firstError # NoError /\ ~shouldRetry(freq.firstError)) =>
       freq.pc = "thrown" /\ freq.calls = 1
  /\ (freq.pc = "thrown" /\ shouldRetry(freq.thrown.originalError)) =>
       freq.calls = freq.maxRetries + 1
  /\ freq.pc \in {"returned", "thrown"} =>
       ~ENABLED FetchWake /\ ~ENABLED FetchFail /\ ~ENABLED FetchOk

\* a request with maxRetries = 3 failed four times, retryable each time
C7_Witness ==
  /\ freq.pc = "thrown"
  /\ freq.maxRetries = DEFAULT_MAX_RETRIES
  /\ freq.calls = DEFAULT_MAX_RETRIES + 1
  /\ freq.sleeps = DEFAULT_MAX_RETRIES
  /\ shouldRetry(freq.firstError)

\* the cost-table entries of the successful tasks whose provider has a key,
\* added in task order
CostOfConfigured(ts) ==
  FSum([k \in DOMAIN ts |->
          IF API_KEY[ts[k].provider] /\ ts[k].result.error = ""
          THEN COST_ESTIMATES[ts[k].provider] ELSE 0])

\* C8: a task of a provider without key never takes a slot of either limiter
\* and never issues a network call; its result has error set and latencyMs 0,
\* and it adds nothing to the cost of the run's metrics or of the snapshot.
C8_Unconfigured ==
  \A r \in RunIds :
    /\ \A i \in DOMAIN tasks[r] :
         LET t == tasks[r][i] IN
         ~API_KEY[t.provider] =>
           /\ t.st = "done"
           /\ t.globalAcq = 0 /\ t.provAcq = 0 /\ t.calls = 0
           /\ <<r, i>> \notin Range(globalQueue)
           /\ <<r, i>> \notin Range(provQueue[t.provider])
           /\ t.result.error # "" /\ t.result.content = ""
           /\ t.result.latencyMs = 0
    /\ Finished(r) =>
         /\ runOut[r].synthesisResult[1].metrics.totalCostUSD
              = CostOfConfigured(tasks[r])
         /\ \A p \in Provider :
              ~API_KEY[p] =>
                runOut[r].synthesisResult[1].metrics.costEstimates[p] = 0
    /\ SnapshotOf(r) =>
         /\ lastRunStatus[1].totalCostUSD = CostOfConfigured(tasks[r])
         /\ \A k \in DOMAIN lastRunStatus[1].providers :
              ~API_KEY[lastRunStatus[1].providers[k].provider] =>
                lastRunStatus[1].providers[k].totalCostUSD = 0

\* a run returned with a task of a provider without key next to a successful
\* task of a provider with key, whose cost is counted
C8_Witness ==
  \E r \in RunIds :
    /\ Finished(r)
    /\ SnapshotOf(r)
    /\ \E i, j \in DOMAIN tasks[r] :
         /\ ~API_KEY[tasks[r][i].provider]
         /\ API_KEY[tasks[r][j].provider]
         /\ tasks[r][j].result.error = ""
         /\ tasks[r][j].result.content # ""
    /\ runOut[r].synthesisResult[1].metrics.totalCostUSD > 0


IsQuestionHeading(line) ==
  \E n \in DOMAIN QuestionIds, q \in Range(QuestionIds) :
    line = QuestionHeading(n, q)

\* the content of result stands in text below the heading of its provider,
\* and the nearest question heading above it is the one of its question
UnderQuestionHeading(text, result) ==
  \E k \in DOMAIN text :
    /\ k > 2
    /\ text[k] = result.content
    /\ text[k - 2] = ProviderHeading(result)
    /\ \E h \in 1..(k - 1) :
         /\ \E n \in DOMAIN QuestionIds :
              text[h] = QuestionHeading(n, result.questionId)
         /\ \A m \in (h + 1)..(k - 1) : ~IsQuestionHeading(text[m])

SynthesisFailedIn(r) == "synthesis_failed" \in Range(runOut[r].synthEvents)

\* C9: when synthesis is requested and fails (the key is missing, nothing
\* succeeded, or the call failed after its retries), the run does not fail
\* with the synthesis error: the outcome is the aggregation fallback, named so
\* by synthModel, its text holds the content of every successful result under
\* the heading of its question, and the run returns whenever the output
\* format is a supported one.
C9_SynthesisFallback ==
  \A r \in RunIds :
    /\ (Finished(r) /\ runOut[r].synthesis) =>
         (SynthesisFailedIn(r)
            <=> "synthesis_finished" \notin Range(runOut[r].synthEvents))
    /\ (Finished(r) /\ SynthesisFailedIn(r)) =>
         /\ runOut[r].synthesis
         /\ runOut[r].synthesisResult # <<>>
         /\ runOut[r].synthesisResult[1].synthModel = "none (aggregation only)"
         /\ \A i \in DOMAIN tasks[r] :
              tasks[r][i].result.error = "" =>
                UnderQuestionHeading(runOut[r].synthesisResult[1].synthesized,
                                     tasks[r][i].result)
         /\ runOut[r].format \in OutputFormats => runOut[r].status = "returned"
         /\ runOut[r].status = "thrown" =>
              runOut[r].error = "Unknown output format: " \o runOut[r].format

\* a run returned after its synthesis call was retried and given up, with two
\* successful results of different questions
C9_Witness ==
  \E r \in RunIds :
    /\ runPc[r] = "returned"
    /\ SynthesisFailedIn(r)
    /\ runOut[r].synthCalls = SYNTH_MAX_RETRIES + 1
    /\ \E i, j \in DOMAIN tasks[r] :
         /\ tasks[r][i].result.error = "" /\ tasks[r][j].result.error = ""
         /\ tasks[r][i].questionId # tasks[r][j].questionId

ExactlyOneSuccess(r) ==
  Cardinality({i \in DOMAIN tasks[r] : tasks[r][i].result.error = ""}) = 1

TheSuccess(r) ==
  tasks[r][CHOOSE i \in DOMAIN tasks[r] : tasks[r][i].result.error = ""].result

SinglePassThrough(r) ==
  /\ runOut[r].synthesisResult # <<>>
  /\ runOut[r].synthesisResult[1].synthesized = <<TheSuccess(r).content>>
  /\ runOut[r].synthesisResult[1].synthModel = "none (single result)"
  /\ runOut[r].synthCalls = 0

\* C10 as stated: whenever exactly one result of a run is successful, the
\* outcome's text is that result's content, synthModel is
\* "none (single result)", and no synthesis call is issued.
C10_SingleAlways ==
  \A r \in RunIds :
    (Finished(r) /\ ExactlyOneSuccess(r)) => SinglePassThrough(r)

\* C10 as amended: when synthesis is requested, the synthesis API key is
\* configured and exactly one result of the run is successful, the outcome's
\* text is that result's content, synthModel is "none (single result)", and
\* no synthesis call is issued.
C10_SingleWhenSynthesizing ==
  \A r \in RunIds :
    (Finished(r) /\ ExactlyOneSuccess(r) /\ runOut[r].synthesis
       /\ API_KEY["openai"]) => SinglePassThrough(r)

\* a run that asked for synthesis returned with one successful result among
\* several
C10_Witness ==
  \E r \in RunIds :
    /\ runPc[r] = "returned"
    /\ runOut[r].synthesis
    /\ API_KEY["openai"]
    /\ Len(tasks[r]) >= 3
    /\ ExactlyOneSuccess(r)
    /\ TheSuccess(r).content # ""
    /\ SinglePassThrough(r)


NoSuccess(r) == \A i \in DOMAIN tasks[r] : tasks[r][i].result.error # ""

\* C11: when synthesis is requested and no result of the run is successful,
\* researchRun fails (it throws, with the no-successful-results error of
\* synthesize) instead of returning an outcome.
C11_ZeroSuccessFails ==
  \A r \in RunIds :
    (Finished(r) /\ runOut[r].synthesis /\ NoSuccess(r)) =>
       /\ runOut[r].status = "thrown"
       /\ runOut[r].error \notin {"", "Unknown output format: " \o runOut[r].format}

StatusEntryOk(entry) ==
  /\ entry.totalQueries > 0
  /\ entry.successfulQueries + entry.failedQueries = entry.totalQueries
  \* successRate = successfulQueries / totalQueries, as a quotient
  /\ entry.successRate[1] * entry.totalQueries
       = entry.successfulQueries * entry.successRate[2]
  /\ entry.successRate[2] # 0

StatusEntriesOk ==
  lastRunStatus # <<>> =>
    \A k \in DOMAIN researchStatus.providers :
      StatusEntryOk(researchStatus.providers[k])

\* C12 as stated: researchStatus returns the no-runs marker as long as no run
\* has completed; afterwards every per-provider entry has totalQueries > 0,
\* successfulQueries + failedQueries = totalQueries and
\* successRate = successfulQueries / totalQueries.
C12_MarkerUntilCompleted ==
  /\ (\A r \in RunIds : runPc[r] \notin {"returned", "failed"}) =>
       researchStatus = NoRunsMarker
  /\ StatusEntriesOk

\* C12 as amended: researchStatus returns the no-runs marker exactly as long
\* as no run has passed its join (a run still synthesizing has already
\* replaced the snapshot, a run that failed validation has not); once a run
\* has, every per-provider entry has totalQueries > 0,
\* successfulQueries + failedQueries = totalQueries and
\* successRate = successfulQueries / totalQueries.
C12_MarkerUntilJoined ==
  /\ (researchStatus = NoRunsMarker) <=> (\A r \in RunIds : ~Joined(r))
  /\ StatusEntriesOk

\* the snapshot of a run of two providers, one of them with a success and a
\* failure
C12_Witness ==
  /\ lastRunStatus # <<>>
  /\ Len(researchStatus.providers) >= 2
  /\ \E k \in DOMAIN researchStatus.providers :
       /\ researchStatus.providers[k].successfulQueries > 0
       /\ researchStatus.providers[k].failedQueries > 0

TasksOf(r, p) == {i \in DOMAIN tasks[r] : tasks[r][i].provider = p}

RECURSIVE LatencyOfSuccessful(_, _)
LatencyOfSuccessful(ts, p) ==
  IF ts = <<>> THEN 0
  ELSE (IF Head(ts).provider = p /\ Head(ts).result.error = ""
        THEN Head(ts).result.latencyMs ELSE 0)
       + LatencyOfSuccessful(Tail(ts), p)

CostOfProvider(ts, p) ==
  FSum([k \in DOMAIN ts |->
          IF ts[k].provider = p /\ ts[k].result.error = ""
          THEN COST_ESTIMATES[p] ELSE 0])

\* the snapshot holds the figures of run r, and nothing else
SnapshotMatches(r) ==
  /\ lastRunStatus # <<>>
  /\ lastRunStatus[1].totalQueries = Len(tasks[r])
  /\ lastRunStatus[1].totalCostUSD = CostOfConfigured(tasks[r])
  /\ {lastRunStatus[1].providers[k].provider : k \in DOMAIN lastRunStatus[1].providers}
       = {tasks[r][i].provider : i \in DOMAIN tasks[r]}
  /\ \A k \in DOMAIN lastRunStatus[1].providers :
       LET entry == lastRunStatus[1].providers[k]
           succ == {i \in TasksOf(r, entry.provider) : tasks[r][i].result.error = ""}
       IN /\ entry.totalQueries = Cardinality(TasksOf(r, entry.provider))
          /\ entry.successfulQueries = Cardinality(succ)
          /\ entry.totalCostUSD = CostOfProvider(tasks[r], entry.provider)
          /\ succ # {} =>
               entry.avgLatencyMs
                 = <<LatencyOfSuccessful(tasks[r], entry.provider), Cardinality(succ)>>

\* C13: the step in which a run completes its join leaves a snapshot that is
\* computed from that run's results alone (providers, counters, latencies and
\* costs of that run, whatever the snapshot held before), and no other step
\* changes the snapshot.
C13_SnapshotReplaced ==
  [][/\ \A r \in RunIds :
          (runPc[r] = "tasks" /\ runPc'[r] # "tasks") => SnapshotMatches(r)'
     /\ lastRunStatus' # lastRunStatus =>
          \E r \in RunIds : runPc[r] = "tasks" /\ runPc'[r] # "tasks"]_vars

\* two runs of different providers have joined; the snapshot is that of one
\* of them and shows nothing of the other
C13_Witness ==
  \E r1, r2 \in RunIds :
    /\ r1 # r2
    /\ Joined(r1) /\ Joined(r2)
    /\ runIn[r1].providers # runIn[r2].providers
    /\ SnapshotMatches(r2)
    /\ ~SnapshotMatches(r1)


HeldGlobal == {id \in AllTasks : HoldsGlobal(TaskOf(tasks, id))}

HeldProvider(p) ==
  {id \in AllTasks : /\ TaskOf(tasks, id).provider = p
                     /\ TaskOf(tasks, id).st \in {"scheduled", "fetch", "sleep"}}

\* C14: no slot is leaked: the slots counted by the global limiter and by each
\* provider's limiter are exactly those of tasks whose call has not settled; a
\* settled task has released each slot it took, whether it succeeded or
\* threw; once every task has settled no slot is held and no task is queued;
\* and no task waits in the global queue while a global slot is free.
C14_NoSlotLeak ==
  /\ activeCount = Cardinality(HeldGlobal)
  /\ \A p \in Provider : running[p] = Cardinality(HeldProvider(p))
  /\ \A id \in AllTasks :
       TaskOf(tasks, id).st = "done" =>
         /\ TaskOf(tasks, id).released = TaskOf(tasks, id).globalAcq
         /\ TaskOf(tasks, id).released = TaskOf(tasks, id).provAcq
  /\ (\A id \in AllTasks : TaskOf(tasks, id).st = "done") =>
       /\ activeCount = 0
       /\ \A p \in Provider : running[p] = 0 /\ provQueue[p] = <<>>
       /\ globalQueue = <<>>
  /\ globalQueue # <<>> => activeCount = GLOBAL_CONCURRENCY

\* more tasks than global slots, every one of them ended by a thrown failure:
\* no slot is held
C14_Witness ==
  \E r \in RunIds :
    /\ Len(tasks[r]) > GLOBAL_CONCURRENCY
    /\ \A i \in DOMAIN tasks[r] :
         /\ tasks[r][i].st = "done"
         /\ tasks[r][i].result.error = "adapter failure"
         /\ tasks[r][i].released = 1
    /\ activeCount = 0

RateLimitError ==
  [name |-> "Error", fetchFailed |-> FALSE, hasStatus |-> TRUE, status |-> 429]

\* the provider's minTime doubled, at most RATE_LIMIT_MAX_MIN_TIME_MS
Doubled(p) ==
  [minTime EXCEPT ![p] = Min(@ * 2, RATE_LIMIT_MAX_MIN_TIME_MS)]

\* C15: whenever a provider call receives an HTTP 429 response, that
\* provider's minTime is doubled, capped at 5000 ms, and every other
\* provider's minTime is unchanged.
C15_DoublesOn429 ==
  [][\A r \in RunIds, i \in 1..(GovTasks + 1) :
       TaskFailWith(r, i, RateLimitError) =>
         minTime' = Doubled(tasks[r][i].provider)]_vars

\* C16 as stated: every result of a run has exactly one of content non-empty
\* or error non-empty.
C16_ExactlyOne ==
  \A id \in AllTasks :
    TaskOf(tasks, id).st = "done" =>
      ((TaskOf(tasks, id).result.content # "")
         <=> (TaskOf(tasks, id).result.error = ""))

\* C16 as amended: a result of a run never has error set together with a
\* non-empty content, and a result with a non-empty content has no error; both
\* are empty only for a call that succeeded with a response without text.
C16_ErrorExcludesContent ==
  \A id \in AllTasks :
    LET t == TaskOf(tasks, id) IN
    t.st = "done" =>
      /\ t.result.error # "" => t.result.content = ""
      /\ t.result.content # "" => t.result.error = ""
      /\ (t.result.content = "" /\ t.result.error = "") =>
           /\ t.calls >= 1
           /\ "provider_finished" \in Range(t.events)

\* a run with a result without text and without error, a failed result and a
\* result with content
C16_Witness ==
  \E r \in RunIds :
    /\ Joined(r)
    /\ \E i, j, k \in DOMAIN tasks[r] :
         /\ tasks[r][i].result.content = "" /\ tasks[r][i].result.error = ""
         /\ tasks[r][j].result.error = "HTTP request failed"
         /\ tasks[r][k].result.content # ""

InvalidInput(in) == in.providers = <<>> \/ in.questions = <<>>

\* C17: a run called with an empty providers or questions list fails in its
\* first step with the invalid-input error: it has no task, no slot or queue
\* of either limiter changes, no event is emitted and the snapshot is
\* unchanged; and it stays so.
C17_InvalidInputFails ==
  /\ [](\A r \in RunIds :
          (runPc[r] # "idle" /\ InvalidInput(runIn[r])) =>
            /\ runPc[r] = "failed"
            /\ runOut[r].status = "thrown"
            /\ runOut[r].error \in {"At least one provider must be specified",
                                    "At least one question must be specified"}
            /\ tasks[r] = <<>>
            /\ runOut[r].synthEvents = <<>>
            /\ runOut[r].synthCalls = 0
            /\ synthReq[r] = NoSynthReq)
  /\ [][\A r \in RunIds :
          (runPc[r] = "idle" /\ runPc'[r] # "idle" /\ InvalidInput(runIn'[r])) =>
            UNCHANGED <<tasks, globalQueue, activeCount, provQueue, running,
                        cooldown, synthReq, lastRunStatus>>]_vars

\* a run with an empty providers list failed after another run had joined,
\* and the snapshot is still that of the other run
C17_Witness ==
  \E r, other \in RunIds :
    /\ runPc[r] = "failed"
    /\ runIn[r].providers = <<>>
    /\ runIn[r].questions # <<>>
    /\ Joined(other)
    /\ SnapshotMatches(other)

\* C18: a run whose output format is none of "json", "markdown" and "file"
\* fails with the unknown-format error, whatever its tasks and its synthesis
\* did; a run with one of the three formats does not.
C18_UnknownFormatFails ==
  \A r \in RunIds :
    Finished(r) =>
      /\ runOut[r].format \notin OutputFormats =>
           /\ runPc[r] = "failed"
           /\ runOut[r].status = "thrown"
           /\ runOut[r].error = "Unknown output format: " \o runOut[r].format
      /\ runOut[r].format \in OutputFormats => runPc[r] = "returned"

\* a run failed on its format although every task and the synthesis call
\* succeeded
C18_Witness ==
  \E r \in RunIds :
    /\ runPc[r] = "failed"
    /\ runOut[r].format = "xml"
    /\ Len(tasks[r]) >= 2
    /\ \A i \in DOMAIN tasks[r] : tasks[r][i].result.error = ""
    /\ runOut[r].synthCalls = 1
    /\ "synthesis_finished" \in Range(runOut[r].synthEvents)

\* C19: every provider call of a run is attempted at most the run's
\* maxRetries + 1 times.
C19_RunRetriesGovern ==
  \A r \in RunIds : \A i \in DOMAIN tasks[r] :
    tasks[r][i].calls <= runIn[r].maxRetries + 1

\* what the caller is given of a result: an entry of the outcome's sources, or
\* its error message in the outcome's text
Reported(r, result) ==
  \/ result \in Range(runOut[r].synthesisResult[1].sources)
  \/ result.error \in Range(runOut[r].synthesisResult[1].synthesized)

\* C20 as stated: every failed result of a run is reported, with its provider
\* and its error message, in what the run returns.
C20_FailuresReported ==
  \A r \in RunIds :
    runPc[r] = "returned" =>
      \A i \in FailedTasks(r) : Reported(r, tasks[r][i].result)

\* C20 as amended: what a run returns lists the successful results only; a
\* failed result is counted in the outcome's metrics.failedQueries, and for a
\* configured provider it is announced by a provider_failed event, but neither
\* its provider entry nor its error message is in the returned text or sources.
C20_FailuresCountedOnly ==
  \A r \in RunIds :
    /\ runPc[r] = "returned" =>
         /\ runOut[r].synthesisResult[1].metrics.failedQueries
              = Cardinality(FailedTasks(r))
         /\ \A i \in FailedTasks(r) : ~Reported(r, tasks[r][i].result)
         /\ \A i \in DOMAIN tasks[r] \ FailedTasks(r) :
              tasks[r][i].result \in Range(runOut[r].synthesisResult[1].sources)
    /\ \A i \in FailedTasks(r) :
         IF API_KEY[tasks[r][i].provider]
         THEN "provider_failed" \in Range(tasks[r][i].events)
         ELSE tasks[r][i].events = <<>>

\* a run returned an aggregation with a failed result of a configured
\* provider, a failed result of an unconfigured one and a successful result
C20_Witness ==
  \E r \in RunIds :
    /\ runPc[r] = "returned"
    /\ runOut[r].synthesisResult[1].synthModel = "none (aggregation only)"
    /\ \E i, j, k \in DOMAIN tasks[r] :
         /\ i \in FailedTasks(r) /\ API_KEY[tasks[r][i].provider]
         /\ j \in FailedTasks(r) /\ ~API_KEY[tasks[r][j].provider]
         /\ tasks[r][k].result.content # ""

NoSynthesisAvailable ==
  "No synthesis result available to save. Run a research query first."

\* researchSave(filename): the results research.save may return when it is
\* called in the current state; with a cached result the report is written
\* and its path returned, unless writing the file throws
researchSave ==
  IF lastSynthesis = <<>>
  THEN {[filepath |-> "", error |-> NoSynthesisAvailable]}
  ELSE {[filepath |-> "report.md", error |-> ""],
        [filepath |-> "", error |-> "Failed to save report"]}

\* C21: once a run has completed with an outcome, research.save can write
\* that outcome to a file and return its path; it answers with the
\* no-synthesis-available error only while no run has produced an outcome.
C21_SaveAfterRun ==
  /\ (\E r \in RunIds : runPc[r] = "returned" /\ runOut[r].synthesisResult # <<>>)
       => \E saved \in researchSave : saved.filepath # ""
  /\ (\E saved \in researchSave : saved.error = NoSynthesisAvailable)
       => \A r \in RunIds : runOut[r].synthesisResult = <<>>

SynthesisFinishedIn(r) == "synthesis_finished" \in Range(runOut[r].synthEvents)

RetryableFailure(error) ==
  \/ error.name = "AbortError"
  \/ error.name = "TypeError" /\ error.fetchFailed
  \/ error.hasStatus /\ error.status \in {429} \cup (500..599)

\* C23 (fetchWithRetry on its own): a failed attempt is followed by a wait
\* and a further attempt only when the failure is a timeout, a network
\* failure, HTTP 5xx or HTTP 429, and such a failure is retried whenever a
\* retry is left; any other failure, HTTP 4xx other than 429 included, is
\* thrown at once, enriched, with no further attempt.
C23_RetryClassification ==
  /\ freq.pc = "sleep" => RetryableFailure(freq.lastError)
  /\ (freq.lastError # NoError /\ ~RetryableFailure(freq.lastError)) =>
       /\ freq.pc = "thrown"
       /\ freq.thrown.originalError = freq.lastError
       /\ freq.calls = freq.attempt + 1
       /\ ~ENABLED FetchWake
  /\ (freq.pc = "thrown" /\ RetryableFailure(freq.lastError)) =>
       freq.attempt = freq.maxRetries
  /\ \A error \in Failures :
       (error.hasStatus /\ error.status \in 400..499 /\ error.status # 429)
         => ~shouldRetry(error)

\* a request answered 429 was retried and then answered 404, which ended it
\* with retries left
C23_Witness ==
  /\ freq.pc = "thrown"
  /\ freq.firstError.status = 429
  /\ freq.lastError.status = 404
  /\ freq.calls = 2
  /\ freq.maxRetries > 1

\* C24 (fetchWithRetry on its own): a request that does not return the
\* response throws an enriched error that carries the original failure and
\* the number of attempts made: 1 after a first failure that is not
\* retryable, maxRetries + 1 after exhaustion.
C24_AttemptsCarried ==
  freq.pc = "thrown" =>
    /\ freq.thrown.name = "HTTPError"
    /\ freq.thrown.originalError = freq.lastError
    /\ freq.thrown.attempts = freq.calls

BackoffTable(i) ==
  CASE i = 0 -> 250
    [] i = 1 -> 500
    [] i = 2 -> 1000
    [] OTHER -> 2000

\* C25 (fetchWithRetry on its own): the wait after a retryable failure of the
\* 0-indexed attempt i is min(backoffBase * 2^i, 2000) ms plus a jitter in
\* [0, 100); with the default base that is 250, 500, 1000, 2000 and 2000 from
\* then on; a wait is followed by an attempt, so none follows the last one.
C25_Backoff ==
  LET det == Min(freq.backoffBase * Pow2(freq.attempt), 2000) IN
  /\ freq.pc = "sleep" =>
       /\ freq.attempt < freq.maxRetries
       /\ freq.backoffMs >= det /\ freq.backoffMs < det + 100
       /\ det <= 2000
       /\ freq.backoffBase = 250 => det = BackoffTable(freq.attempt)
       /\ freq.sleeps = freq.attempt + 1
  /\ freq.pc # "sleep" => freq.sleeps = freq.attempt
  /\ freq.pc = "thrown" => freq.sleeps = freq.calls - 1 /\ ~ENABLED FetchWake

\* the fifth attempt of a request with the default base failed and is
\* followed by a wait of the cap plus the largest jitter
C25_Witness ==
  /\ freq.pc = "sleep"
  /\ freq.backoffBase = DEFAULT_BACKOFF_BASE
  /\ freq.attempt = 4
  /\ freq.backoffMs = BACKOFF_CAP_MS + JITTER_RANGE_MS - 1

\* C26: a task takes its slot of the global limiter first and its provider's
\* slot only then; its adapter call is issued only while it holds both; it
\* gives both back in the step in which the call settles; so no task holds a
\* provider slot without a global slot.
C26_GlobalThenProvider ==
  /\ \A id \in AllTasks :
       LET t == TaskOf(tasks, id) IN
       /\ t.provAcq <= t.globalAcq /\ t.globalAcq <= 1
       /\ t.st \in {"new", "queued"} =>
            t.globalAcq = 0 /\ t.provAcq = 0 /\ t.calls = 0
       /\ t.st = "provq" =>
            t.globalAcq = 1 /\ t.provAcq = 0 /\ t.calls = 0 /\ t.released = 0
       /\ t.st = "scheduled" =>
            t.globalAcq = 1 /\ t.provAcq = 1 /\ t.calls = 0 /\ t.released = 0
       /\ InFlight(t) =>
            t.globalAcq = 1 /\ t.provAcq = 1 /\ t.calls >= 1 /\ t.released = 0
       /\ t.calls >= 1 => t.globalAcq = 1 /\ t.provAcq = 1
       /\ (t.st = "done" /\ t.globalAcq + t.provAcq > 0) =>
            t.globalAcq = 1 /\ t.provAcq = 1 /\ t.released = 1
  /\ \A p \in Provider : HeldProvider(p) \subseteq HeldGlobal
  /\ activeCount = Cardinality(HeldGlobal)
  /\ \A p \in Provider : running[p] = Cardinality(HeldProvider(p))

\* a task holds a global slot and waits for its provider's slot, which two
\* tasks with a call in flight hold; a fourth task has settled
C26_Witness ==
  \E a, b, c, d \in AllTasks :
    /\ b # c
    /\ TaskOf(tasks, a).st = "provq"
    /\ InFlight(TaskOf(tasks, b)) /\ InFlight(TaskOf(tasks, c))
    /\ TaskOf(tasks, b).provider = TaskOf(tasks, a).provider
    /\ TaskOf(tasks, c).provider = TaskOf(tasks, a).provider
    /\ TaskOf(tasks, d).st = "done" /\ TaskOf(tasks, d).released = 1

\* C27: a task of a configured provider has emitted exactly one
\* provider_started, before its call is issued; once it has settled it has
\* emitted, after it, exactly one of provider_finished (result without
\* error) and provider_failed (result with error, returned or thrown).
C27_TaskEvents ==
  \A id \in AllTasks :
    LET t == TaskOf(tasks, id) IN
    API_KEY[t.provider] =>
      /\ t.st # "new"
      /\ t.st # "done" => t.events = <<"provider_started">>
      /\ t.st = "done" =>
           t.events = <<"provider_started",
                        IF t.result.error = "" THEN "provider_finished"
                        ELSE "provider_failed">>
      /\ t.calls >= 1 => Head(t.events) = "provider_started"

\* one task settled with a result, another threw, a third is still queued
C27_Witness ==
  \E r \in RunIds : \E i, j, k \in DOMAIN tasks[r] :
    /\ tasks[r][i].events = <<"provider_started", "provider_finished">>
    /\ tasks[r][j].events = <<"provider_started", "provider_failed">>
    /\ tasks[r][j].result.error = "adapter failure"
    /\ tasks[r][k].st # "done" /\ tasks[r][k].calls = 0

\* the task's call failed: the adapter returned an error result, or threw
CallFailed(t) == "provider_failed" \in Range(t.events)

\* C28: a call that throws and a call that returns an error result are
\* handled alike: the task yields one result with error set and content '',
\* emits one provider_failed, adds 0 to the cost, and is counted as a failed
\* query by the metrics and by the snapshot.
C28_FailuresUniform ==
  \A r \in RunIds :
    LET failedCalls == {i \in DOMAIN tasks[r] : CallFailed(tasks[r][i])} IN
    /\ \A i \in failedCalls :
         LET t == tasks[r][i] IN
         /\ t.st = "done"
         /\ t.result.error # "" /\ t.result.content = ""
         /\ t.result.provider = t.provider /\ t.result.questionId = t.questionId
         /\ t.events = <<"provider_started", "provider_failed">>
    /\ failedCalls \subseteq FailedTasks(r)
    /\ runPc[r] = "returned" =>
         LET m == runOut[r].synthesisResult[1].metrics IN
         /\ m.failedQueries = Cardinality(FailedTasks(r))
         /\ m.successfulQueries = Len(tasks[r]) - Cardinality(FailedTasks(r))
         /\ m.totalCostUSD
              = FSum([k \in DOMAIN tasks[r] |->
                         IF k \in FailedTasks(r) THEN 0
                         ELSE COST_ESTIMATES[tasks[r][k].provider]])
    /\ SnapshotOf(r) =>
         /\ \A k \in DOMAIN lastRunStatus[1].providers :
              LET entry == lastRunStatus[1].providers[k] IN
              entry.failedQueries
                = Cardinality(TasksOf(r, entry.provider) \cap FailedTasks(r))
         /\ lastRunStatus[1].totalCostUSD
              = FSum([k \in DOMAIN tasks[r] |->
                         IF k \in FailedTasks(r) THEN 0
                         ELSE COST_ESTIMATES[tasks[r][k].provider]])

\* a run returned whose tasks failed one by throwing, one by an error result,
\* beside a successful one
C28_Witness ==
  \E r \in RunIds : \E i, j, k \in DOMAIN tasks[r] :
    /\ runPc[r] = "returned"
    /\ SnapshotOf(r)
    /\ tasks[r][i].result.error = "adapter failure"
    /\ tasks[r][j].result.error = "HTTP request failed"
    /\ tasks[r][k].result.error = ""

\* the results of the tasks of run r, in task order
ResultsInTaskOrder(r) == [k \in DOMAIN tasks[r] |-> tasks[r][k].result]

\* in text, the content of result a stands above the content of result b
Above(text, a, b) ==
  \E m, n \in DOMAIN text :
    m < n /\ text[m] = a.content /\ text[n] = b.content

\* C29: the tasks of a run are in provider-major, question-minor order, and
\* what the run returns without synthesis is determined by the results in
\* that order, whatever the order in which the tasks settled: its sources are
\* the successful results in task order, and in its text the contents given
\* to one question stand in the order of their providers.
C29_TaskOrder ==
  \A r \in RunIds :
    /\ \A k \in DOMAIN tasks[r] :
         LET n == Len(runIn[r].questions) IN
         /\ tasks[r][k].provider = runIn[r].providers[((k - 1) \div n) + 1]
         /\ tasks[r][k].questionId = runIn[r].questions[((k - 1) % n) + 1]
    /\ (/\ runPc[r] = "returned"
        /\ runOut[r].synthesisResult[1].synthModel = "none (aggregation only)") =>
         LET out == runOut[r].synthesisResult[1]
             succ == {k \in DOMAIN tasks[r] : tasks[r][k].result.error = ""}
         IN
         /\ out = aggregateWithoutSynthesis(ResultsInTaskOrder(r))
         /\ Len(out.sources) = Cardinality(succ)
         /\ \A k \in DOMAIN out.sources :
              \E i \in succ :
                /\ out.sources[k] = tasks[r][i].result
                /\ Cardinality({j \in succ : j < i}) = k - 1
         /\ \A i, j \in succ :
              (/\ i < j
               /\ tasks[r][i].questionId = tasks[r][j].questionId
               /\ tasks[r][i].result.content # ""
               /\ tasks[r][j].result.content # "") =>
                Above(out.synthesized, tasks[r][i].result, tasks[r][j].result)

\* a run of two providers and two questions returned its aggregation after a
\* task of the second provider had settled first
C29_Witness ==
  \E r \in RunIds :
    /\ runPc[r] = "returned"
    /\ runOut[r].synthesisResult[1].synthModel = "none (aggregation only)"
    /\ Len(tasks[r]) = 4
    /\ Len(settleOrder) = 4
    /\ settleOrder[1] = <<r, 3>>
    /\ settleOrder[4] = <<r, 1>>

\* C30: a run that does not ask for synthesis never issues a synthesis call
\* and emits no synthesis event; its outcome is the aggregation, named so by
\* synthModel, for any number of successful results; with none, the text
\* is the header alone, without a question heading, and the run still
\* returns (whenever the output format is a supported one).
C30_NoSynthesisRequested ==
  \A r \in RunIds :
    /\ (runPc[r] = "synth" \/ synthReq[r] # NoSynthReq) => runOut[r].synthesis
    /\ (Finished(r) /\ ~runOut[r].synthesis) =>
         /\ runOut[r].synthCalls = 0
         /\ runOut[r].synthEvents = <<>>
         /\ runOut[r].synthTokens = 0
         /\ runOut[r].format \in OutputFormats =>
              /\ runPc[r] = "returned"
              /\ runOut[r].status = "returned"
              /\ runOut[r].synthesisResult[1].synthModel
                   = "none (aggregation only)"
              /\ SubSeq(runOut[r].synthesisResult[1].synthesized, 1,
                        Len(AggregationHeader)) = AggregationHeader
              /\ \A i \in DOMAIN tasks[r] \ FailedTasks(r) :
                   tasks[r][i].result.content
                     \in Range(runOut[r].synthesisResult[1].synthesized)
              /\ NoSuccess(r) =>
                   /\ runOut[r].synthesisResult[1].synthesized = AggregationHeader
                   /\ \A line \in Range(runOut[r].synthesisResult[1].synthesized) :
                        ~IsQuestionHeading(line)
                   /\ runOut[r].synthesisResult[1].sources = <<>>
         /\ runOut[r].format \notin OutputFormats => runPc[r] = "failed"

\* a run without synthesis returned the empty report after all of its tasks
\* had failed, one of them after a call
C30_WitnessEmpty ==
  \E r \in RunIds :
    /\ runPc[r] = "returned"
    /\ ~runOut[r].synthesis
    /\ NoSuccess(r)
    /\ \E i \in DOMAIN tasks[r] : tasks[r][i].calls >= 1
    /\ runOut[r].synthesisResult[1].synthesized = AggregationHeader

\* C31 as stated: the result of a task of a provider without key has the
\* error text "<provider> not configured".
C31_NotConfiguredText ==
  \A id \in AllTasks :
    LET t == TaskOf(tasks, id) IN
    ~API_KEY[t.provider] => t.result.error = t.provider \o " not configured"

\* C31 as amended: the result of a task of a provider without key has the
\* error text "<provider> API key not configured", the provider identifier
\* substituted: "gemini API key not configured" for gemini.
C31_ApiKeyNotConfiguredText ==
  \A id \in AllTasks :
    LET t == TaskOf(tasks, id) IN
    ~API_KEY[t.provider] =>
      /\ t.result.provider = t.provider
      /\ t.result.error = t.provider \o " API key not configured"
      /\ t.provider = "gemini" => t.result.error = "gemini API key not configured"
      /\ t.provider = "openai" => t.result.error = "openai API key not configured"

\* a run of gemini, which has no key, and of openai, which has one, is past
\* its join
C31_Witness ==
  \E r \in RunIds : \E i, j \in DOMAIN tasks[r] :
    /\ Joined(r)
    /\ ~API_KEY["gemini"] /\ tasks[r][i].provider = "gemini"
    /\ tasks[r][i].result.error = "gemini API key not configured"
    /\ API_KEY["openai"] /\ tasks[r][j].provider = "openai"

\* the tasks of run r that hold a slot of the global limiter
HeldGlobalBy(r) == {i \in DOMAIN tasks[r] : HoldsGlobal(tasks[r][i])}

\* the tasks of run r that hold a slot of the limiter of provider p
HeldProviderBy(r, p) ==
  {i \in DOMAIN tasks[r] : /\ tasks[r][i].provider = p
                            /\ tasks[r][i].st \in {"scheduled", "fetch", "sleep"}}

\* C32: the caps hold across the runs of the process, not per run: the calls
\* admitted by the global limiter and not settled, of all runs together, are
\* never more than 6, and those of one provider that have started and not
\* settled, of all runs together, never more than 2; both limiters count the
\* calls of every run.
C32_CapsAcrossRuns ==
  /\ SeqSum([r \in RunIds |-> Cardinality(HeldGlobalBy(r))]) <= 6
  /\ SeqSum([r \in RunIds |-> Cardinality(HeldGlobalBy(r))]) = activeCount
  /\ \A p \in Provider :
       /\ SeqSum([r \in RunIds |-> Cardinality(HeldProviderBy(r, p))]) <= 2
       /\ SeqSum([r \in RunIds |-> Cardinality(HeldProviderBy(r, p))]) = running[p]

\* two runs overlap: together they hold the six global slots, each of them
\* some, a task of the second waits for a global slot, and the two slots of
\* a provider are held by a task of each run
C32_Witness ==
  \E r1, r2 \in RunIds :
    /\ r1 < r2
    /\ runPc[r1] = "tasks" /\ runPc[r2] = "tasks"
    /\ HeldGlobalBy(r1) # {} /\ HeldGlobalBy(r2) # {}
    /\ Cardinality(HeldGlobalBy(r1)) + Cardinality(HeldGlobalBy(r2)) = 6
    /\ \E i \in DOMAIN tasks[r2] : <<r2, i>> \in Range(globalQueue)
    /\ \E p \in Provider :
         Cardinality(HeldProviderBy(r1, p)) = 1
         /\ Cardinality(HeldProviderBy(r2, p)) = 1

\* C33: a task keeps its global slot and its provider slot from its first
\* attempt to the settlement of its call, through every retry and every
\* backoff sleep: once a call is issued the task is in no queue of either
\* limiter again, it has taken each slot once, and it gives them back once,
\* when it settles.
C33_SlotsKeptAcrossRetries ==
  \A id \in AllTasks :
    LET t == TaskOf(tasks, id) IN
    (t.calls >= 1 \/ t.st = "sleep") =>
      /\ t.st \in {"fetch", "sleep", "done"}
      /\ t.calls = t.attempt + 1
      /\ t.calls <= ADAPTER_MAX_RETRIES + 1
      /\ t.globalAcq = 1 /\ t.provAcq = 1
      /\ id \notin Range(globalQueue)
      /\ \A p \in Provider : id \notin Range(provQueue[p])
      /\ t.st # "done" =>
           /\ t.released = 0
           /\ id \in HeldGlobal /\ id \in HeldProvider(t.provider)
           /\ activeCount >= 1 /\ running[t.provider] >= 1
      /\ t.st = "done" => t.released = 1

\* a task sleeps before its third attempt, holding its slots, and another
\* task has settled after a retry
C33_Witness ==
  \E a, b \in AllTasks :
    /\ TaskOf(tasks, a).st = "sleep"
    /\ TaskOf(tasks, a).calls = 2
    /\ a \in HeldGlobal /\ a \in HeldProvider(TaskOf(tasks, a).provider)
    /\ TaskOf(tasks, b).st = "done"
    /\ TaskOf(tasks, b).calls >= 2
    /\ TaskOf(tasks, b).released = 1

\* C34: status() returns the no-runs marker until a run has joined, and from
\* then on the snapshot of exactly one run, the one whose join completed
\* last, whichever run started last: its entries, counters and costs are
\* those of that run's results and of no other run.
C34_LastJoinWins ==
  /\ lastJoined = 0 <=> researchStatus = NoRunsMarker
  /\ lastJoined = 0 <=> \A r \in RunIds : ~Joined(r)
  /\ lastJoined # 0 =>
       /\ Joined(lastJoined)
       /\ researchStatus = updateSystemStatus(ResultsInTaskOrder(lastJoined))
       /\ SnapshotMatches(lastJoined)
       /\ \A k \in DOMAIN researchStatus.providers :
            researchStatus.providers[k].provider
              \in Range(runIn[lastJoined].providers)

\* the run that started last joined first, and the run that started first
\* joined after it: the snapshot is that of the first run and shows nothing
\* of the other, whose provider is another
C34_Witness ==
  \E r1, r2 \in RunIds :
    /\ r1 < r2
    /\ Joined(r1) /\ Joined(r2)
    /\ lastJoined = r1
    /\ Range(runIn[r1].providers) \cap Range(runIn[r2].providers) = {}
    /\ SnapshotMatches(r1)
    /\ ~SnapshotMatches(r2)

\* the run failed on its output format
FailedOnFormat(r) ==
  /\ runPc[r] = "failed"
  /\ runOut[r].error = "Unknown output format: " \o runOut[r].format

\* C35: the output format is examined last: a run that fails on an unknown
\* format has dispatched and joined all its m x n tasks, has replaced the
\* snapshot with its results (status() shows them until another run joins),
\* and has synthesized or aggregated; and the format of a run is known to
\* have been read only if the run is past its join.
C35_FormatExaminedLast ==
  \A r \in RunIds :
    /\ runOut[r].format # "" => Joined(r)
    /\ FailedOnFormat(r) =>
         /\ runOut[r].format \notin OutputFormats
         /\ Len(tasks[r]) = Len(runIn[r].providers) * Len(runIn[r].questions)
         /\ Len(tasks[r]) > 0
         /\ \A i \in DOMAIN tasks[r] :
              /\ tasks[r][i].st = "done"
              /\ API_KEY[tasks[r][i].provider] => tasks[r][i].calls >= 1
         /\ lastJoined # 0
         /\ lastJoined = r =>
              /\ researchStatus # NoRunsMarker
              /\ researchStatus = updateSystemStatus(ResultsInTaskOrder(r))
              /\ researchStatus.totalQueries = Len(tasks[r])
         /\ runOut[r].synthesisResult # <<>>
         /\ runOut[r].synthesis =>
              /\ Head(runOut[r].synthEvents) = "synthesis_started"
              /\ Len(runOut[r].synthEvents) = 2

\* a run of two providers and two questions failed on the format "xml" after
\* its four calls and its synthesis call; the snapshot is that of this run
C35_Witness ==
  \E r \in RunIds :
    /\ FailedOnFormat(r)
    /\ runOut[r].format = "xml"
    /\ Len(runIn[r].providers) = 2 /\ Len(runIn[r].questions) = 2
    /\ \A i \in DOMAIN tasks[r] : tasks[r][i].calls >= 1
    /\ runOut[r].synthCalls = 1
    /\ lastJoined = r
    /\ SnapshotMatches(r)

MinTimeValues == {500, 1000, 2000, 4000, 5000}

\* C36 (the rate-limit settings on their own): under any sequence of
\* handleRateLimitError and resetProviderRateLimit calls every provider's
\* minTime, 500 at the start, is one of 500, 1000, 2000, 4000 and 5000; a
\* rate-limit signal never lowers it, leaves it at 5000 once there, and
\* touches no other provider; a reset sets it to 500; and it is lowered by
\* a reset only.
C36_MinTimeLadder ==
  [][\A p \in Provider :
       /\ minTime[p] \in MinTimeValues /\ minTime'[p] \in MinTimeValues
       /\ HandleRateLimitError(p) =>
            /\ minTime'[p] >= minTime[p]
            /\ minTime'[p] <= 2 * minTime[p]
            /\ minTime[p] = 5000 => minTime'[p] = 5000
            /\ \A q \in Provider \ {p} : minTime'[q] = minTime[q]
       /\ ResetProviderRateLimit(p) => minTime'[p] = 500
       /\ minTime'[p] < minTime[p] =>
            ResetProviderRateLimit(p) /\ minTime'[p] = 500]_vars

\* the rate-limit signals of one provider have taken its minTime up to the
\* limit, those of another to 4000, and a third is at 500 beside them
C36_Witness ==
  /\ env.name = "rateLimit"
  /\ minTime["openai"] = 5000
  /\ minTime["gemini"] = 4000
  /\ minTime["perplexity"] = 500
  /\ minTime["deepseek"] = 2000

\* C37: when synthesis is requested and the synthesis key is missing, the
\* run falls back to the aggregation whatever the number of successful
\* results, none, one or more: no synthesis call is issued, the outcome is
\* the aggregation of the results, named so by synthModel (never the
\* single-result shortcut), and the synthesis events are synthesis_started
\* followed by synthesis_failed.
C37_KeyCheckFirst ==
  \A r \in RunIds :
    /\ runPc[r] = "synth" => API_KEY["openai"]
    /\ (Finished(r) /\ runOut[r].synthesis /\ ~API_KEY["openai"]) =>
         /\ runOut[r].synthCalls = 0
         /\ runOut[r].synthEvents = <<"synthesis_started", "synthesis_failed">>
         /\ runOut[r].synthesisResult
              = <<aggregateWithoutSynthesis(ResultsInTaskOrder(r))>>
         /\ runOut[r].synthesisResult[1].synthModel = "none (aggregation only)"
         /\ Len(runOut[r].synthesisResult[1].sources)
              = Cardinality(DOMAIN tasks[r] \ FailedTasks(r))
         /\ runOut[r].format \in OutputFormats => runPc[r] = "returned"

\* a run that asked for synthesis without the synthesis key returned the
\* aggregation of its one successful result, beside a failed one
C37_Witness ==
  \E r \in RunIds :
    /\ runPc[r] = "returned"
    /\ runOut[r].synthesis
    /\ ~API_KEY["openai"]
    /\ ExactlyOneSuccess(r)
    /\ Len(tasks[r]) >= 2
    /\ runOut[r].synthesisResult[1].synthModel = "none (aggregation only)"
    /\ runOut[r].synthEvents = <<"synthesis_started", "synthesis_failed">>

\* the per-provider entries of the snapshot added up, in their order
SumOfEntries(field) ==
  FSum([k \in DOMAIN lastRunStatus[1].providers |->
          lastRunStatus[1].providers[k][field]])

CountsConsistent ==
  /\ \A r \in RunIds :
       runOut[r].synthesisResult # <<>> =>
         LET m == runOut[r].synthesisResult[1].metrics IN
         /\ m.totalQueries = m.successfulQueries + m.failedQueries
         /\ m.totalQueries = Len(tasks[r])
         /\ m.successfulQueries = Len(tasks[r]) - Cardinality(FailedTasks(r))
  /\ lastRunStatus # <<>> =>
       /\ lastRunStatus[1].totalQueries
            = SeqSum([k \in DOMAIN lastRunStatus[1].providers |->
                       lastRunStatus[1].providers[k].totalQueries])
       /\ \A k \in DOMAIN lastRunStatus[1].providers :
            LET entry == lastRunStatus[1].providers[k] IN
            entry.totalQueries = entry.successfulQueries + entry.failedQueries

\* C38 as stated: in every outcome totalQueries = successfulQueries +
\* failedQueries = the number of results of the run; the snapshot's
\* totalQueries is the sum of the per-provider totalQueries and its
\* totalCostUSD is the sum of the per-provider totalCostUSD.
C38_SumsEqual ==
  /\ CountsConsistent
  /\ lastRunStatus # <<>> =>
       lastRunStatus[1].totalCostUSD = SumOfEntries("totalCostUSD")

\* the providers of the snapshot that have a cost
Charged == {k \in DOMAIN lastRunStatus[1].providers :
              lastRunStatus[1].providers[k].totalCostUSD > 0}

\* C38 as amended: the counts are consistent as stated; the snapshot's
\* totalCostUSD and the sum of the per-provider totalCostUSD are
\* floating-point sums of the same cost-table entries added in different
\* orders: they are equal when at most one provider has a cost, and
\* otherwise differ by no more than the rounding of the additions.
C38_SumsEqualUpToRounding ==
  /\ CountsConsistent
  /\ lastRunStatus # <<>> =>
       LET total == lastRunStatus[1].totalCostUSD
           sum == SumOfEntries("totalCostUSD")
           diff == IF total >= sum THEN total - sum ELSE sum - total
       IN /\ Cardinality(Charged) <= 1 => total = sum
          /\ diff * Pow2(MantissaBits - 1)
               <= lastRunStatus[1].totalQueries * Max(total, sum)
          /\ (total = 0) <=> (sum = 0)

\* the snapshot of a run of two providers, all four calls successful: its
\* totalCostUSD is not the sum of the two per-provider costs
C38_Witness ==
  /\ lastRunStatus # <<>>
  /\ lastRunStatus[1].totalQueries = 4
  /\ Cardinality(Charged) = 2
  /\ lastRunStatus[1].totalCostUSD # SumOfEntries("totalCostUSD")
  /\ \E r \in RunIds : runPc[r] = "returned" /\ FailedTasks(r) = {}

\* the synthesis notifications of run r so far
SynthesisEvents(r) == runOut[r].synthEvents

\* C39: when synthesis is requested, researchRun notifies synthesis_started
\* after the join and then exactly one of synthesis_finished and
\* synthesis_failed before it ends (none of the two while the synthesis call
\* is pending, never both); when synthesis is not requested, and before the
\* join, no synthesis notification is made.
C39_SynthesisEvents ==
  \A r \in RunIds :
    /\ SynthesisEvents(r) # <<>> => Joined(r) /\ runOut[r].synthesis
    /\ runPc[r] = "synth" =>
         /\ runOut[r].synthesis
         /\ SynthesisEvents(r) = <<"synthesis_started">>
    /\ (Finished(r) /\ runOut[r].synthesis) =>
         SynthesisEvents(r) \in
           {<<"synthesis_started", "synthesis_finished">>,
            <<"synthesis_started", "synthesis_failed">>}
    /\ (Finished(r) /\ ~runOut[r].synthesis) => SynthesisEvents(r) = <<>>

\* two runs have returned with synthesis requested, one after
\* synthesis_finished and one after synthesis_failed, the latter after a
\* synthesis call that was made and failed
C39_Witness ==
  \E r, q \in RunIds :
    /\ runPc[r] = "returned" /\ runPc[q] = "returned"
    /\ SynthesisEvents(r) = <<"synthesis_started", "synthesis_finished">>
    /\ SynthesisEvents(q) = <<"synthesis_started", "synthesis_failed">>
    /\ runOut[r].synthCalls >= 1
    /\ runOut[q].synthCalls >= 1

\* some run has started and not ended
InProgress == \E r \in RunIds : runPc[r] \in {"tasks", "synth"}

\* every run that has started has returned or failed, each of its tasks has
\* settled, nothing is queued and no slot is held
Quiescent ==
  /\ \A r \in RunIds :
       /\ runPc[r] \in {"idle", "returned", "failed"}
       /\ \A i \in DOMAIN tasks[r] : tasks[r][i].st = "done"
       /\ synthReq[r].st \in {"none", "done"}
  /\ globalQueue = <<>>
  /\ activeCount = 0
  /\ \A p \in Provider : provQueue[p] = <<>> /\ running[p] = 0

\* C40: every run terminates and the two limiters never deadlock: when due
\* callbacks run and every network attempt ends, whenever a run is in
\* progress, eventually every task queued behind the two gates has been
\* admitted and has settled, and every run that started has returned or
\* failed, also when the tasks exceed the caps of both limiters.
C40_Terminates == InProgress ~> Quiescent

\* a run of more tasks than the global limit, more than maxConcurrent of them
\* for one provider, has returned: each task took a slot of each limiter once
\* and released it, and nothing is queued or held
C40_Witness ==
  /\ Quiescent
  /\ \E r \in RunIds :
       /\ runPc[r] = "returned"
       /\ Len(tasks[r]) > GLOBAL_CONCURRENCY
       /\ \E p \in Provider :
            Cardinality({i \in DOMAIN tasks[r] : tasks[r][i].provider = p})
              > maxConcurrent
       /\ \A i \in DOMAIN tasks[r] :
            /\ tasks[r][i].globalAcq = 1 /\ tasks[r][i].provAcq = 1
            /\ tasks[r][i].released = 1

====
